---- MODULE Spec2Model ----
(***************************************************************************)
(* The Flow program (src/flow/programs/flow/src/lib.rs): liquidity         *)
(* positions, rebalance decisions, human approval and guarded execution.   *)
(*                                                                         *)
(* Each instruction handler is one atomic action.  The Solana runtime      *)
(* takes a write lock on every account an instruction declares `mut`       *)
(* (the decision and the position of ExecuteRebalance, the decision of     *)
(* ApproveRebalance), so two transactions on the same account are          *)
(* serialised, and a handler that returns Err (or panics) has every        *)
(* account write of its transaction discarded.  A failing call therefore   *)
(* changes only lastCall, the record of the call the step made.  The audit *)
(* trail of the program is the log of its transactions: the handlers write *)
(* audit lines with msg! and keep no audit account, so the lines a call    *)
(* wrote are part of its record.  auditLog is what a reader of that log    *)
(* has collected, in the order of the transactions: a line's sequence key  *)
(* is its index in the log and its timestamp the clock of its transaction. *)
(* The log is read in SpecAudit; the other specifications leave it empty.  *)
(*                                                                         *)
(* The Guard tool (src/guard/src/main.rs, detector.rs) is a separate       *)
(* process that polls the cluster for the transactions of a program and    *)
(* reports dangerous token instructions.  Its watch loop is SpecWatch and  *)
(* its detector SpecDetector; it shares no state with the program, and     *)
(* the specifications of the program leave it stopped.                     *)
(*                                                                         *)
(* Option<T> is a sequence: <<>> is None and <<v>> is Some(v).             *)
(* Token amounts (u64) are in units of 10^9 base units and the u32         *)
(* rebalance_count is a pair <<high, low>> of 16-bit limbs, because the    *)
(* model checker's integers are 32-bit signed.                             *)
(***************************************************************************)
EXTENDS Integers, Sequences, FiniteSets, TLC

VARIABLES
    now,        \* Clock::get().unix_timestamp
    slot,       \* Clock::get().slot
    positions,  \* LiquidityPosition accounts, by PDA (owner, position_index)
    decisions,  \* RebalanceDecision accounts, by PDA (position, decision_index)
    lastCall,   \* the instruction the last step ran: how it returned, what it logged
    auditLog,   \* the audit lines read from the transaction log, oldest first
    processed_signatures,   \* Guard: the HashSet of run_watch
    lastPoll,   \* Guard: where the watch loop is, and what its last poll did
    analyzed,   \* Guard: the signatures whose transaction was analyzed so far
    transaction,    \* Guard: the transaction handed to the detector
    warnings    \* Guard: what the detector returned for it

\* The state of the Guard tool (src/guard), which runs beside the program
guardVars == <<processed_signatures, lastPoll, analyzed, transaction, warnings>>

vars == <<now, slot, positions, decisions, lastCall, auditLog, guardVars>>

-----------------------------------------------------------------------------
(* Bounds of the model *)

MaxTicks == 1           \* clock advances explored
MaxPrice == 30          \* lower prices explored for the swap threshold: 0..MaxPrice
MaxAuditLines == 3      \* audit lines read: a call that would write one more is not sent
CacheLimit == 3         \* size past which the Guard empties its set of signatures;
                        \* the source has 1000, more signatures than can be explored

-----------------------------------------------------------------------------
(* Program constants *)

MinRebalanceInterval == 3600
DefaultSlippageToleranceBps == 50
MaxPositionSize == 1000
MaxSingleTradeSize == 100
RequireHumanApprovalThreshold == 500
PlaceholderSwapAmount == 1000
U16Max == 65535

\* The ProtocolConfig account as initialize_protocol_config leaves it; no
\* instruction writes it afterwards.
config ==
    [ min_rebalance_interval           |-> MinRebalanceInterval,
      default_slippage_tolerance_bps   |-> DefaultSlippageToleranceBps,
      max_position_size                |-> MaxPositionSize,
      max_single_trade_size            |-> MaxSingleTradeSize,
      require_human_approval_threshold |-> RequireHumanApprovalThreshold ]

PositionStatus == {"Active", "Paused", "Closed", "Liquidated"}
ExecutionStatus == {"Pending", "Executed", "Failed", "Rejected", "Cancelled"}
RiskLevel == {"Low", "Medium", "High", "Critical"}

-----------------------------------------------------------------------------
(* Identities and the inputs explored *)

StartTime == MinRebalanceInterval       \* the cluster clock is past the first interval
TickSeconds == MinRebalanceInterval        \* one interval per clock advance

Keys == {"alice", "bob"}
Owners == {"alice"}
PositionIds == {<<o, 0>> : o \in Owners}
DecisionIndexes == {0, 1}

None == <<>>
Some(v) == <<v>>

\* u32 as <<high, low>>
U32(n) == <<n \div (U16Max + 1), n % (U16Max + 1)>>
U32Max == <<U16Max, U16Max>>

\* u32::wrapping_add(1), as an Option that is never None
wrapping_add_1(c) ==
    IF c[2] < U16Max THEN Some(<<c[1], c[2] + 1>>)
    ELSE IF c[1] < U16Max THEN Some(<<c[1] + 1, 0>>)
    ELSE Some(<<0, 0>>)

\* u32::checked_add(1): Option<u32>
checked_add_1(c) ==
    IF c[2] < U16Max THEN Some(<<c[1], c[2] + 1>>)
    ELSE IF c[1] < U16Max THEN Some(<<c[1] + 1, 0>>)
    ELSE None

\* Arguments and optional accounts of create_liquidity_position: a valid call
\* and calls that break one or several of its requirements.
GoodCreate ==
    [ tick |-> <<-10, 10>>, price |-> <<100, 200>>,
      max_position_size |-> MaxPositionSize, max_single_trade |-> MaxSingleTradeSize,
      raydium |-> "none", raydium_cpi_ok |-> TRUE ]

CreateInputs ==
    { GoodCreate,
      [GoodCreate EXCEPT !.tick = <<10, 10>>],
      [GoodCreate EXCEPT !.price = <<200, 200>>],
      [GoodCreate EXCEPT !.price = <<200, 100>>, !.max_position_size = MaxPositionSize + 1],
      [GoodCreate EXCEPT !.max_position_size = MaxPositionSize + 1],
      [GoodCreate EXCEPT !.max_single_trade = MaxSingleTradeSize + 1],
      [GoodCreate EXCEPT !.raydium = "provided"],
      [GoodCreate EXCEPT !.raydium = "provided", !.raydium_cpi_ok = FALSE],
      [GoodCreate EXCEPT !.raydium = "wrong_program"] }

\* Arguments of create_rebalance_decision, metrics = <<confidence, sentiment,
\* volatility>>: a range that needs a swap (with and without a stored swap
\* transaction, at low and at critical risk), one that needs none (at medium
\* risk), and invalid ranges.
GoodPropose ==
    [ tick |-> <<-20, 20>>, price |-> <<111, 222>>, metrics |-> <<9000, 0, 0>>,
      jupiter_swap_transaction |-> None ]

ProposeInputs ==
    { GoodPropose,
      [GoodPropose EXCEPT !.metrics = <<4000, 0, 0>>],
      [GoodPropose EXCEPT !.jupiter_swap_transaction = Some("tx")],
      [GoodPropose EXCEPT !.price = <<100, 210>>, !.metrics = <<8000, 0, 0>>],
      [GoodPropose EXCEPT !.tick = <<20, 20>>],
      [GoodPropose EXCEPT !.tick = <<20, -20>>, !.metrics = <<4000, 0, 0>>],
      [GoodPropose EXCEPT !.price = <<210, 210>>] }

\* The optional accounts and the venue's answers of one execute_rebalance call.
\* swap_slippage_bps is the slippage a swap realises at the venue when the CPI
\* goes through; the CPI returns nothing and the program reads no balance, so
\* no operator of the program looks at it.
LocalOnly ==
    [ jupiter_program |-> "none", swap_accounts |-> FALSE, route_plan |-> None,
      jupiter_cpi_ok |-> TRUE, swap_slippage_bps |-> 2 * DefaultSlippageToleranceBps,
      raydium |-> "none", raydium_token_accounts |-> FALSE, raydium_cpi_ok |-> TRUE,
      raydium_increase_ok |-> TRUE ]

GoodPlan ==
    [ mints_match |-> TRUE, in_amount |-> PlaceholderSwapAmount,
      slippage_bps |-> 2 * DefaultSlippageToleranceBps ]

RoutePlans ==
    { GoodPlan,
      [GoodPlan EXCEPT !.mints_match = FALSE],
      [GoodPlan EXCEPT !.in_amount = PlaceholderSwapAmount - 1],
      [GoodPlan EXCEPT !.slippage_bps = 2 * DefaultSlippageToleranceBps + 1] }

WithJupiter ==
    [LocalOnly EXCEPT !.jupiter_program = "provided", !.swap_accounts = TRUE,
                      !.route_plan = Some(GoodPlan)]

WithRaydium ==
    [LocalOnly EXCEPT !.raydium = "provided", !.raydium_token_accounts = TRUE]

VenueScenarios ==
    { LocalOnly, WithJupiter, WithRaydium,
      [WithJupiter EXCEPT !.jupiter_program = "wrong_program"],
      [WithJupiter EXCEPT !.swap_accounts = FALSE],
      [WithJupiter EXCEPT !.route_plan = None],
      [WithJupiter EXCEPT !.jupiter_cpi_ok = FALSE],
      [WithJupiter EXCEPT !.swap_slippage_bps = 2 * DefaultSlippageToleranceBps + 1],
      [WithJupiter EXCEPT !.raydium = "provided", !.raydium_token_accounts = TRUE],
      [WithJupiter EXCEPT !.raydium = "provided", !.raydium_token_accounts = TRUE,
                          !.raydium_cpi_ok = FALSE],
      [WithRaydium EXCEPT !.raydium = "wrong_program"],
      [WithRaydium EXCEPT !.raydium_token_accounts = FALSE],
      [WithRaydium EXCEPT !.raydium_cpi_ok = FALSE] }
    \cup { [WithJupiter EXCEPT !.route_plan = Some(p)] : p \in RoutePlans }

Approvers == {None} \cup {Some(k) : k \in Keys}

\* Calls of execute_rebalance: every approver account without venue accounts,
\* every venue scenario with one signer, and the tolerance and the swap
\* signature varied.
GoodExecute ==
    [ approver |-> Some("alice"), slippage_tolerance_bps |-> 2 * DefaultSlippageToleranceBps,
      swap_execution_signature |-> None, venue |-> LocalOnly ]

ExecuteInputs ==
    { [GoodExecute EXCEPT !.approver = a] : a \in Approvers }
    \cup { [GoodExecute EXCEPT !.venue = v] : v \in VenueScenarios }
    \cup { [GoodExecute EXCEPT !.approver = None, !.venue = v] : v \in {WithJupiter, WithRaydium} }
    \cup { [GoodExecute EXCEPT !.approver = a, !.slippage_tolerance_bps = t, !.venue = v] :
             a \in {None, Some("alice")},
             t \in {2 * DefaultSlippageToleranceBps - 1, 2 * DefaultSlippageToleranceBps + 1},
             v \in {LocalOnly, WithJupiter} }
    \cup { [GoodExecute EXCEPT !.approver = a, !.swap_execution_signature = Some("sig")] :
             a \in {None, Some("alice")} }
    \cup { [GoodExecute EXCEPT !.swap_execution_signature = Some("sig"),
                               !.venue = [WithRaydium EXCEPT !.raydium_cpi_ok = FALSE]],
           [GoodExecute EXCEPT !.venue = [WithRaydium EXCEPT !.raydium_increase_ok = FALSE]] }

-----------------------------------------------------------------------------
(* Helper functions of the program *)

\* assess_risk with the sentiment threshold made inclusive
assess_risk_inclusive_sentiment(confidence, sentiment, volatility) ==
    IF confidence < 5000 \/ volatility > 8000 THEN "Critical"
    ELSE IF confidence < 7000 \/ volatility > 6000 \/ sentiment <= -5000 THEN "High"
    ELSE IF confidence < 8500 \/ volatility > 4000 THEN "Medium"
    ELSE "Low"

\* assess_risk
assess_risk(confidence, sentiment, volatility) ==
    IF confidence < 5000 \/ volatility > 8000 THEN "Critical"
    ELSE IF confidence < 7000 \/ volatility > 6000 \/ sentiment < -5000 THEN "High"
    ELSE IF confidence < 8500 \/ volatility > 4000 THEN "Medium"
    ELSE "Low"

\* calculate_swap_requirements
calculate_swap_requirements(position, decision) ==
    LET price_range_change ==
            IF decision.new_price_lower > position.current_price_lower
            THEN decision.new_price_lower - position.current_price_lower
            ELSE position.current_price_lower - decision.new_price_lower
    IN  IF price_range_change > position.current_price_lower \div 10 THEN TRUE ELSE FALSE

\* calculate_swap_amount with an inclusive threshold
calculate_swap_amount_inclusive(position, decision) ==
    LET price_range_change ==
            IF decision.new_price_lower > position.current_price_lower
            THEN decision.new_price_lower - position.current_price_lower
            ELSE position.current_price_lower - decision.new_price_lower
    IN  IF price_range_change >= position.current_price_lower \div 10
        THEN PlaceholderSwapAmount
        ELSE 0

\* calculate_swap_amount
calculate_swap_amount(position, decision) ==
    LET price_range_change ==
            IF decision.new_price_lower > position.current_price_lower
            THEN decision.new_price_lower - position.current_price_lower
            ELSE position.current_price_lower - decision.new_price_lower
    IN  IF price_range_change > position.current_price_lower \div 10
        THEN PlaceholderSwapAmount
        ELSE 0

\* create_audit_log_internal writing every line with the same event type
create_audit_log_internal_untyped(event_type, position, user, clock) ==
    [ event_type |-> "Rebalanced", position |-> position, user |-> user,
      created_at |-> clock.unix_timestamp, slot |-> clock.slot ]

\* create_audit_log_internal: the line it writes to the log of the transaction
\* whose clock it is handed.
create_audit_log_internal(event_type, position, user, clock) ==
    [ event_type |-> event_type, position |-> position, user |-> user,
      created_at |-> clock.unix_timestamp, slot |-> clock.slot ]

Clock == [unix_timestamp |-> now, slot |-> slot]

\* lastCall while no call is waiting to be returned to its caller
Idle ==
    [ op |-> "none", position |-> None, index |-> None, signer |-> None,
      args |-> None, result |-> "Ok", venue |-> <<>>, audit |-> <<>> ]

\* A call whose handler writes its audit line twice
Call_logging_twice(op, position, index, signer, args, result, venue, audit) ==
    [ op |-> op, position |-> Some(position), index |-> index, signer |-> signer,
      args |-> Some(args), result |-> result, venue |-> venue,
      audit |-> IF result = "Ok" THEN audit \o audit ELSE <<>> ]

\* The record of a call: the instruction, the accounts and the signer it was
\* given, its arguments, how it returned, the venue calls it made and the
\* audit lines of its transaction (none when the handler returned Err before
\* it reached create_audit_log_internal).
Call(op, position, index, signer, args, result, venue, audit) ==
    [ op |-> op, position |-> Some(position), index |-> index, signer |-> signer,
      args |-> Some(args), result |-> result, venue |-> venue,
      audit |-> IF result = "Ok" THEN audit ELSE <<>> ]

-----------------------------------------------------------------------------
(* create_liquidity_position *)

\* create_raydium_position, called when the five Raydium accounts are given
create_raydium_position(a) ==
    IF a.raydium = "none" THEN "Ok"
    ELSE IF a.raydium = "wrong_program" THEN "InvalidFacilitator"
    ELSE IF ~a.raydium_cpi_ok THEN "VenueError"
    ELSE "Ok"

\* the require! chain with the size caps checked before the range
create_liquidity_position_result_caps_first(a) ==
    IF ~(a.max_position_size <= config.max_position_size) THEN "ExceedsMaxPositionSize"
    ELSE IF ~(a.max_single_trade <= config.max_single_trade_size) THEN "ExceedsMaxTradeSize"
    ELSE IF ~(a.tick[1] < a.tick[2]) THEN "InvalidPriceRange"
    ELSE IF ~(a.price[1] < a.price[2]) THEN "InvalidPriceRange"
    ELSE create_raydium_position(a)

\* the require! chain without the check of max_single_trade
create_liquidity_position_result_position_cap_only(a) ==
    IF ~(a.tick[1] < a.tick[2]) THEN "InvalidPriceRange"
    ELSE IF ~(a.price[1] < a.price[2]) THEN "InvalidPriceRange"
    ELSE IF ~(a.max_position_size <= config.max_position_size) THEN "ExceedsMaxPositionSize"
    ELSE create_raydium_position(a)

\* the require! chain without the two size caps
create_liquidity_position_result_uncapped(a) ==
    IF ~(a.tick[1] < a.tick[2]) THEN "InvalidPriceRange"
    ELSE IF ~(a.price[1] < a.price[2]) THEN "InvalidPriceRange"
    ELSE create_raydium_position(a)

\* The require! chain of create_liquidity_position, then the venue call.
create_liquidity_position_result(a) ==
    IF ~(a.tick[1] < a.tick[2]) THEN "InvalidPriceRange"
    ELSE IF ~(a.price[1] < a.price[2]) THEN "InvalidPriceRange"
    ELSE IF ~(a.max_position_size <= config.max_position_size) THEN "ExceedsMaxPositionSize"
    ELSE IF ~(a.max_single_trade <= config.max_single_trade_size) THEN "ExceedsMaxTradeSize"
    ELSE create_raydium_position(a)

\* a new position whose last rebalance is stamped with the time of creation
new_position_stamped(owner, a, clock) ==
    [ owner                    |-> owner,
      dex                      |-> "Raydium",
      current_tick_lower       |-> a.tick[1],
      current_tick_upper       |-> a.tick[2],
      current_price_lower      |-> a.price[1],
      current_price_upper      |-> a.price[2],
      liquidity_amount         |-> 0,
      total_fees_earned_a      |-> 0,
      total_fees_earned_b      |-> 0,
      total_value_locked       |-> 0,
      last_rebalance_slot      |-> clock.slot,
      last_rebalance_timestamp |-> clock.unix_timestamp,
      rebalance_count          |-> U32(0),
      status                   |-> "Active",
      auto_rebalance_enabled   |-> TRUE,
      min_rebalance_interval   |-> config.min_rebalance_interval,
      max_position_size        |-> a.max_position_size,
      max_single_trade         |-> a.max_single_trade,
      created_at               |-> clock.unix_timestamp,
      updated_at               |-> clock.unix_timestamp ]

new_position(owner, a, clock) ==
    [ owner                    |-> owner,
      dex                      |-> "Raydium",
      current_tick_lower       |-> a.tick[1],
      current_tick_upper       |-> a.tick[2],
      current_price_lower      |-> a.price[1],
      current_price_upper      |-> a.price[2],
      liquidity_amount         |-> 0,
      total_fees_earned_a      |-> 0,
      total_fees_earned_b      |-> 0,
      total_value_locked       |-> 0,
      last_rebalance_slot      |-> 0,
      last_rebalance_timestamp |-> 0,
      rebalance_count          |-> U32(0),
      status                   |-> "Active",
      auto_rebalance_enabled   |-> TRUE,
      min_rebalance_interval   |-> config.min_rebalance_interval,
      max_position_size        |-> a.max_position_size,
      max_single_trade         |-> a.max_single_trade,
      created_at               |-> clock.unix_timestamp,
      updated_at               |-> clock.unix_timestamp ]

\* `init` on the position PDA: the account must not exist yet.
create_liquidity_position(pid, a) ==
    /\ lastCall = Idle
    /\ pid \notin DOMAIN positions
    /\ LET result == create_liquidity_position_result(a) IN
       /\ lastCall' = Call("create_liquidity_position", pid, None, Some(pid[1]), a, result, <<>>,
                           <<create_audit_log_internal("PositionCreated", Some(pid),
                                                       pid[1], Clock)>>)
       /\ IF result = "Ok"
          THEN positions' = positions @@ (pid :> new_position(pid[1], a, Clock))
          ELSE UNCHANGED positions
    /\ UNCHANGED <<now, slot, decisions>>

-----------------------------------------------------------------------------
(* create_rebalance_decision *)

\* the interval check with a strict comparison
rebalance_interval_elapsed_strict(position, clock) ==
    clock.unix_timestamp - position.last_rebalance_timestamp > position.min_rebalance_interval

\* clock.unix_timestamp - position.last_rebalance_timestamp >= min_rebalance_interval
rebalance_interval_elapsed(position, clock) ==
    clock.unix_timestamp - position.last_rebalance_timestamp >= position.min_rebalance_interval

\* requires_human_approval with the threshold made exclusive
requires_human_approval_exclusive(risk_assessment, position) ==
    \/ risk_assessment = "Critical"
    \/ risk_assessment = "High"
    \/ position.total_value_locked > config.require_human_approval_threshold

\* requires_human_approval as create_rebalance_decision computes it
requires_human_approval(risk_assessment, position) ==
    \/ risk_assessment = "Critical"
    \/ risk_assessment = "High"
    \/ position.total_value_locked >= config.require_human_approval_threshold

\* the require! chain with the range validated first
create_rebalance_decision_result_range_first(position, a, clock) ==
    IF ~(a.tick[1] < a.tick[2]) THEN "InvalidPriceRange"
    ELSE IF ~(a.price[1] < a.price[2]) THEN "InvalidPriceRange"
    ELSE IF ~(position.status = "Active") THEN "PositionNotActive"
    ELSE IF ~rebalance_interval_elapsed(position, clock) THEN "RebalanceTooFrequent"
    ELSE "Ok"

\* the require! chain validating the tick range only
create_rebalance_decision_result_ticks_only(position, a, clock) ==
    IF ~(position.status = "Active") THEN "PositionNotActive"
    ELSE IF ~rebalance_interval_elapsed(position, clock) THEN "RebalanceTooFrequent"
    ELSE IF ~(a.tick[1] < a.tick[2]) THEN "InvalidPriceRange"
    ELSE "Ok"

\* The require! chain of create_rebalance_decision.
create_rebalance_decision_result(position, a, clock) ==
    IF ~(position.status = "Active") THEN "PositionNotActive"
    ELSE IF ~rebalance_interval_elapsed(position, clock) THEN "RebalanceTooFrequent"
    ELSE IF ~(a.tick[1] < a.tick[2]) THEN "InvalidPriceRange"
    ELSE IF ~(a.price[1] < a.price[2]) THEN "InvalidPriceRange"
    ELSE "Ok"

new_decision(pid, position, a, clock) ==
    LET risk_assessment == assess_risk(a.metrics[1], a.metrics[2], a.metrics[3]) IN
    [ position                 |-> pid,
      new_tick_lower           |-> a.tick[1],
      new_tick_upper           |-> a.tick[2],
      new_price_lower          |-> a.price[1],
      new_price_upper          |-> a.price[2],
      prediction_confidence    |-> a.metrics[1],
      market_sentiment_score   |-> a.metrics[2],
      volatility_metric        |-> a.metrics[3],
      risk_assessment          |-> risk_assessment,
      execution_status         |-> "Pending",
      execution_tx_signature   |-> None,
      execution_slippage       |-> None,
      jupiter_swap_transaction |-> a.jupiter_swap_transaction,
      requires_human_approval  |-> requires_human_approval(risk_assessment, position),
      human_approver           |-> None,
      approval_timestamp       |-> None,
      created_at               |-> clock.unix_timestamp,
      executed_at              |-> None ]

\* `init` on the decision PDA: the account must not exist yet; the position
\* account must exist.  Clients number the decisions of a position in order.
\* No audit line is written (only a msg!).
create_rebalance_decision(pid, i, a) ==
    /\ lastCall = Idle
    /\ pid \in DOMAIN positions
    /\ <<pid, i>> \notin DOMAIN decisions
    /\ \A j \in DecisionIndexes : j < i => <<pid, j>> \in DOMAIN decisions
    /\ LET result == create_rebalance_decision_result(positions[pid], a, Clock) IN
       /\ lastCall' = Call("create_rebalance_decision", pid, Some(i), None, a, result, <<>>, <<>>)
       /\ IF result = "Ok"
          THEN decisions' = decisions @@ (<<pid, i>> :> new_decision(pid, positions[pid], a, Clock))
          ELSE UNCHANGED decisions
    /\ UNCHANGED <<now, slot, positions>>

-----------------------------------------------------------------------------
(* approve_rebalance *)

\* the require! chain without the status check
approve_rebalance_result_any_status(decision) ==
    IF ~decision.requires_human_approval THEN "ApprovalNotRequired"
    ELSE "Ok"

\* The require! chain of approve_rebalance.
approve_rebalance_result(decision) ==
    IF ~decision.requires_human_approval THEN "ApprovalNotRequired"
    ELSE IF ~(decision.execution_status = "Pending") THEN "InvalidExecutionStatus"
    ELSE "Ok"

\* the approval recording the approver without the time
approved_decision_unstamped(decision, approver, clock) ==
    [decision EXCEPT !.human_approver = Some(approver)]

\* The writes of approve_rebalance on the decision
approved_decision(decision, approver, clock) ==
    [decision EXCEPT !.human_approver = Some(approver),
                     !.approval_timestamp = Some(clock.unix_timestamp)]

approve_rebalance(pid, i, approver) ==
    /\ lastCall = Idle
    /\ <<pid, i>> \in DOMAIN decisions
    /\ LET decision == decisions[<<pid, i>>]
           result == approve_rebalance_result(decision) IN
       /\ lastCall' = Call("approve_rebalance", pid, Some(i), Some(approver), <<>>, result, <<>>,
                           <<create_audit_log_internal("HumanApprovalGranted",
                                 Some(decision.position), approver, Clock)>>)
       /\ IF result = "Ok"
          THEN decisions' = [decisions EXCEPT ![<<pid, i>>] =
                                 approved_decision(decision, approver, Clock)]
          ELSE UNCHANGED decisions
    /\ UNCHANGED <<now, slot, positions>>

-----------------------------------------------------------------------------
(* execute_rebalance *)

\* the status check letting a Failed decision be retried
decision_is_pending_or_failed(decision) ==
    decision.execution_status = "Pending" \/ decision.execution_status = "Failed"

\* the status check accepting every status
decision_is_pending_always(decision) ==
    decision.execution_status \in ExecutionStatus

\* require!(decision.execution_status == ExecutionStatus::Pending, ..)
decision_is_pending(decision) ==
    decision.execution_status = "Pending"

\* the approval block accepting any signer once an approver is recorded
human_approval_check_any_signer(decision, approver) ==
    IF decision.requires_human_approval
    THEN IF ~(decision.human_approver # None) THEN "HumanApprovalRequired"
         ELSE IF approver # None THEN "Ok" ELSE "HumanApprovalRequired"
    ELSE "Ok"

\* the approval block without the check that an approver is recorded
human_approval_check_unrecorded(decision, approver) ==
    IF decision.requires_human_approval
    THEN IF approver # None
         THEN IF decision.human_approver # None /\ ~(decision.human_approver[1] = approver[1])
              THEN "InvalidApprover"
              ELSE "Ok"
         ELSE "HumanApprovalRequired"
    ELSE "Ok"

\* The human-approval block of execute_rebalance; approver is the optional
\* Signer account of the call.
human_approval_check(decision, approver) ==
    IF decision.requires_human_approval
    THEN IF ~(decision.human_approver # None) THEN "HumanApprovalRequired"
         ELSE IF approver # None
              THEN IF ~(decision.human_approver[1] = approver[1]) THEN "InvalidApprover"
                   ELSE "Ok"
              ELSE "HumanApprovalRequired"
    ELSE "Ok"

\* the slippage bound made exclusive
slippage_tolerance_ok_exclusive(slippage_tolerance_bps) ==
    slippage_tolerance_bps < config.default_slippage_tolerance_bps * 2

\* slippage_tolerance_bps <= config.default_slippage_tolerance_bps * 2
slippage_tolerance_ok(slippage_tolerance_bps) ==
    slippage_tolerance_bps <= config.default_slippage_tolerance_bps * 2

SwapResult(err, executed, actual_slippage_bps, venue) ==
    [ err |-> err, executed |-> executed, actual_slippage_bps |-> actual_slippage_bps,
      venue |-> venue ]

\* execute_jupiter_swap (with execute_jupiter_cpi as the venue's answer)
execute_jupiter_swap(position, decision, slippage_tolerance_bps, v) ==
    LET skipped == SwapResult("Ok", FALSE, None, <<>>)
        swap_amount == calculate_swap_amount(position, decision)
    IN  IF v.jupiter_program = "none" THEN skipped
        ELSE IF ~(v.jupiter_program = "provided")
             THEN SwapResult("InvalidFacilitator", FALSE, None, <<>>)
        ELSE IF ~v.swap_accounts THEN skipped
        ELSE IF swap_amount = 0 THEN skipped
        ELSE IF v.route_plan # None
             THEN LET plan == v.route_plan[1] IN
                  IF ~plan.mints_match
                  THEN SwapResult("InvalidFacilitator", FALSE, None, <<>>)
                  ELSE IF ~(plan.in_amount = swap_amount)
                  THEN SwapResult("InvalidFacilitator", FALSE, None, <<>>)
                  ELSE IF ~(plan.slippage_bps <= slippage_tolerance_bps)
                  THEN SwapResult("SlippageTooHigh", FALSE, None, <<>>)
                  ELSE IF ~v.jupiter_cpi_ok
                  THEN SwapResult("VenueError", FALSE, None, <<"swap">>)
                  ELSE IF ~(plan.slippage_bps <= slippage_tolerance_bps)
                  THEN SwapResult("SlippageTooHigh", FALSE, None, <<"swap">>)
                  ELSE SwapResult("Ok", TRUE, Some(plan.slippage_bps), <<"swap">>)
             ELSE skipped

\* increase_raydium_liquidity refusing a call that has no owner account
increase_raydium_liquidity_owner_required(v, owner) ==
    IF v.raydium = "none" THEN [err |-> "Ok", venue |-> <<>>]
    ELSE IF ~(v.raydium = "provided") THEN [err |-> "InvalidFacilitator", venue |-> <<>>]
    ELSE IF ~v.raydium_token_accounts THEN [err |-> "Ok", venue |-> <<>>]
    ELSE IF owner = None THEN [err |-> "InvalidFacilitator", venue |-> <<>>]
    ELSE IF ~(v.raydium_cpi_ok /\ v.raydium_increase_ok)
    THEN [err |-> "VenueError", venue |-> <<"increase_liquidity">>]
    ELSE [err |-> "Ok", venue |-> <<"increase_liquidity">>]

\* increase_raydium_liquidity dropping the result of the CPI
increase_raydium_liquidity_unchecked(v, owner) ==
    IF v.raydium = "none" THEN [err |-> "Ok", venue |-> <<>>]
    ELSE IF ~(v.raydium = "provided") THEN [err |-> "InvalidFacilitator", venue |-> <<>>]
    ELSE IF ~v.raydium_token_accounts THEN [err |-> "Ok", venue |-> <<>>]
    ELSE IF owner = None THEN [err |-> "Ok", venue |-> <<>>]
    ELSE [err |-> "Ok", venue |-> <<"increase_liquidity">>]

\* increase_raydium_liquidity; owner is the approver account of the call
increase_raydium_liquidity(v, owner) ==
    IF v.raydium = "none" THEN [err |-> "Ok", venue |-> <<>>]
    ELSE IF ~(v.raydium = "provided") THEN [err |-> "InvalidFacilitator", venue |-> <<>>]
    ELSE IF ~v.raydium_token_accounts THEN [err |-> "Ok", venue |-> <<>>]
    ELSE IF owner = None THEN [err |-> "Ok", venue |-> <<>>]
    ELSE IF ~(v.raydium_cpi_ok /\ v.raydium_increase_ok)
    THEN [err |-> "VenueError", venue |-> <<"increase_liquidity">>]
    ELSE [err |-> "Ok", venue |-> <<"increase_liquidity">>]

\* decrease_raydium_liquidity
decrease_raydium_liquidity(v, owner) ==
    IF v.raydium = "none" THEN [err |-> "Ok", venue |-> <<>>]
    ELSE IF ~(v.raydium = "provided") THEN [err |-> "InvalidFacilitator", venue |-> <<>>]
    ELSE IF ~v.raydium_token_accounts THEN [err |-> "Ok", venue |-> <<>>]
    ELSE IF owner = None THEN [err |-> "Ok", venue |-> <<>>]
    ELSE IF ~v.raydium_cpi_ok THEN [err |-> "VenueError", venue |-> <<"decrease_liquidity">>]
    ELSE [err |-> "Ok", venue |-> <<"decrease_liquidity">>]

\* the swap block taking the CPI path whether or not the decision carries a
\* swap transaction
swap_block_cpi_always(position, decision, x) ==
    IF calculate_swap_requirements(position, decision)
    THEN IF ~slippage_tolerance_ok(x.slippage_tolerance_bps)
         THEN [err |-> "SlippageTooHigh", venue |-> <<>>, decision |-> decision]
         ELSE LET swap_result == execute_jupiter_swap(position, decision,
                                     x.slippage_tolerance_bps, x.venue) IN
              IF swap_result.err # "Ok"
              THEN [err |-> swap_result.err, venue |-> swap_result.venue,
                    decision |-> decision]
              ELSE IF swap_result.actual_slippage_bps # None
              THEN [ err |-> IF swap_result.actual_slippage_bps[1] <= x.slippage_tolerance_bps
                             THEN "Ok" ELSE "SlippageTooHigh",
                     venue |-> swap_result.venue,
                     decision |-> [decision EXCEPT !.execution_slippage =
                                                       swap_result.actual_slippage_bps] ]
              ELSE [err |-> "Ok", venue |-> swap_result.venue, decision |-> decision]
    ELSE [err |-> "Ok", venue |-> <<>>, decision |-> decision]

\* The swap block of execute_rebalance: the decision as the handler holds it
\* afterwards, and how the block ended.
swap_block(position, decision, x) ==
    IF calculate_swap_requirements(position, decision)
    THEN IF decision.jupiter_swap_transaction # None
         THEN [ err |-> "Ok", venue |-> <<>>,
                decision |-> IF x.swap_execution_signature # None
                             THEN [decision EXCEPT !.execution_tx_signature =
                                                       x.swap_execution_signature]
                             ELSE decision ]
         ELSE IF ~slippage_tolerance_ok(x.slippage_tolerance_bps)
              THEN [err |-> "SlippageTooHigh", venue |-> <<>>, decision |-> decision]
              ELSE LET swap_result == execute_jupiter_swap(position, decision,
                                          x.slippage_tolerance_bps, x.venue) IN
                   IF swap_result.err # "Ok"
                   THEN [err |-> swap_result.err, venue |-> swap_result.venue,
                         decision |-> decision]
                   ELSE IF swap_result.actual_slippage_bps # None
                   THEN [ err |-> IF swap_result.actual_slippage_bps[1] <= x.slippage_tolerance_bps
                                  THEN "Ok" ELSE "SlippageTooHigh",
                          venue |-> swap_result.venue,
                          decision |-> [decision EXCEPT !.execution_slippage =
                                                            swap_result.actual_slippage_bps] ]
                   ELSE [err |-> "Ok", venue |-> swap_result.venue, decision |-> decision]
    ELSE [err |-> "Ok", venue |-> <<>>, decision |-> decision]

\* the Raydium block going on to the increase after a failed decrease
raydium_block_unsequenced(position, x) ==
    IF position.dex = "Raydium" /\ x.venue.raydium # "none"
    THEN LET dec == IF position.liquidity_amount > 0
                    THEN decrease_raydium_liquidity(x.venue, x.approver)
                    ELSE [err |-> "Ok", venue |-> <<>>]
             inc == increase_raydium_liquidity(x.venue, x.approver)
         IN  [err |-> IF dec.err # "Ok" THEN dec.err ELSE inc.err,
              venue |-> dec.venue \o inc.venue]
    ELSE [err |-> "Ok", venue |-> <<>>]

\* The Raydium block of execute_rebalance.
raydium_block(position, x) ==
    IF position.dex = "Raydium" /\ x.venue.raydium # "none"
    THEN LET dec == IF position.liquidity_amount > 0
                    THEN decrease_raydium_liquidity(x.venue, x.approver)
                    ELSE [err |-> "Ok", venue |-> <<>>]
         IN  IF dec.err # "Ok" THEN dec
             ELSE LET inc == increase_raydium_liquidity(x.venue, x.approver) IN
                  [err |-> inc.err, venue |-> dec.venue \o inc.venue]
    ELSE [err |-> "Ok", venue |-> <<>>]

\* the commit on the position valuing it at its size cap
rebalanced_position_valued(position, decision, clock) ==
    [position EXCEPT !.current_tick_lower = decision.new_tick_lower,
                     !.current_tick_upper = decision.new_tick_upper,
                     !.current_price_lower = decision.new_price_lower,
                     !.current_price_upper = decision.new_price_upper,
                     !.total_value_locked = position.max_position_size,
                     !.last_rebalance_slot = clock.slot,
                     !.last_rebalance_timestamp = clock.unix_timestamp,
                     !.rebalance_count = checked_add_1(position.rebalance_count)[1],
                     !.updated_at = clock.unix_timestamp]

\* the commit on the position without the count
rebalanced_position_uncounted(position, decision, clock) ==
    [position EXCEPT !.current_tick_lower = decision.new_tick_lower,
                     !.current_tick_upper = decision.new_tick_upper,
                     !.current_price_lower = decision.new_price_lower,
                     !.current_price_upper = decision.new_price_upper,
                     !.last_rebalance_slot = clock.slot,
                     !.last_rebalance_timestamp = clock.unix_timestamp,
                     !.updated_at = clock.unix_timestamp]

\* the commit on the position without the price range
rebalanced_position_ticks_only(position, decision, clock) ==
    [position EXCEPT !.current_tick_lower = decision.new_tick_lower,
                     !.current_tick_upper = decision.new_tick_upper,
                     !.last_rebalance_slot = clock.slot,
                     !.last_rebalance_timestamp = clock.unix_timestamp,
                     !.rebalance_count = checked_add_1(position.rebalance_count)[1],
                     !.updated_at = clock.unix_timestamp]

\* The commit of execute_rebalance on the position
rebalanced_position(position, decision, clock) ==
    [position EXCEPT !.current_tick_lower = decision.new_tick_lower,
                     !.current_tick_upper = decision.new_tick_upper,
                     !.current_price_lower = decision.new_price_lower,
                     !.current_price_upper = decision.new_price_upper,
                     !.last_rebalance_slot = clock.slot,
                     !.last_rebalance_timestamp = clock.unix_timestamp,
                     !.rebalance_count = checked_add_1(position.rebalance_count)[1],
                     !.updated_at = clock.unix_timestamp]

\* the commit on the decision stamping the approval time as well
executed_decision_restamped(decision, clock) ==
    [decision EXCEPT !.execution_status = "Executed",
                     !.executed_at = Some(clock.unix_timestamp),
                     !.approval_timestamp = Some(clock.unix_timestamp)]

\* The commit of execute_rebalance on the decision
executed_decision(decision, clock) ==
    [decision EXCEPT !.execution_status = "Executed",
                     !.executed_at = Some(clock.unix_timestamp)]

\* The whole handler: how it returns, and the accounts it would write.
execute_rebalance_outcome(position, decision, x, clock) ==
    LET Abort(e, v) == [result |-> e, venue |-> v, position |-> position,
                        decision |-> decision]
        approval == human_approval_check(decision, x.approver)
    IN  IF ~decision_is_pending(decision) THEN Abort("InvalidExecutionStatus", <<>>)
        ELSE IF approval # "Ok" THEN Abort(approval, <<>>)
        ELSE IF ~slippage_tolerance_ok(x.slippage_tolerance_bps)
        THEN Abort("SlippageTooHigh", <<>>)
        ELSE LET swap == swap_block(position, decision, x) IN
             IF swap.err # "Ok" THEN Abort(swap.err, swap.venue)
             ELSE LET ray == raydium_block(position, x) IN
                  IF ray.err # "Ok" THEN Abort(ray.err, swap.venue \o ray.venue)
                  ELSE IF checked_add_1(position.rebalance_count) = None
                  THEN Abort("Panic", swap.venue \o ray.venue)
                  ELSE [ result   |-> "Ok",
                         venue    |-> swap.venue \o ray.venue,
                         position |-> rebalanced_position(position, swap.decision, clock),
                         decision |-> executed_decision(swap.decision, clock) ]

\* an execute that marks every Pending decision of the position Executed
execute_rebalance_sweeping(pid, i, x) ==
    /\ lastCall = Idle
    /\ <<pid, i>> \in DOMAIN decisions
    /\ LET out == execute_rebalance_outcome(positions[pid], decisions[<<pid, i>>], x, Clock) IN
       /\ lastCall' = Call("execute_rebalance", pid, Some(i), x.approver, x, out.result, out.venue,
                           <<create_audit_log_internal("Rebalanced", Some(pid),
                                                       out.position.owner, Clock)>>)
       /\ IF out.result = "Ok"
          THEN /\ positions' = [positions EXCEPT ![pid] = out.position]
               /\ decisions' =
                      [d \in DOMAIN decisions |->
                          IF d = <<pid, i>> THEN out.decision
                          ELSE IF d[1] = pid /\ decisions[d].execution_status = "Pending"
                          THEN [decisions[d] EXCEPT !.execution_status = "Executed"]
                          ELSE decisions[d]]
          ELSE UNCHANGED <<positions, decisions>>
    /\ UNCHANGED <<now, slot>>

\* The decision PDA is derived from the position key, so the decision of a
\* call always belongs to the position of the call.
execute_rebalance(pid, i, x) ==
    /\ lastCall = Idle
    /\ <<pid, i>> \in DOMAIN decisions
    /\ LET out == execute_rebalance_outcome(positions[pid], decisions[<<pid, i>>], x, Clock) IN
       /\ lastCall' = Call("execute_rebalance", pid, Some(i), x.approver, x, out.result, out.venue,
                           <<create_audit_log_internal("Rebalanced", Some(pid),
                                                       out.position.owner, Clock)>>)
       /\ IF out.result = "Ok"
          THEN /\ positions' = [positions EXCEPT ![pid] = out.position]
               /\ decisions' = [decisions EXCEPT ![<<pid, i>>] = out.decision]
          ELSE UNCHANGED <<positions, decisions>>
    /\ UNCHANGED <<now, slot>>

-----------------------------------------------------------------------------
(* collect_fees *)

\* the require! chain of collect_fees without the fee check
collect_fees_result_unguarded(position, v) ==
    IF ~(position.status = "Active") THEN "PositionNotActive"
    ELSE IF v.raydium = "wrong_program" THEN "InvalidFacilitator"
    ELSE IF v.raydium = "provided" /\ v.raydium_token_accounts /\ ~v.raydium_cpi_ok
    THEN "VenueError"
    ELSE "Ok"

\* The require! chain of collect_fees and the venue call after it
collect_fees_result(position, v) ==
    IF ~(position.status = "Active") THEN "PositionNotActive"
    ELSE IF ~(position.total_fees_earned_a > 0 \/ position.total_fees_earned_b > 0)
    THEN "NoFeesToCollect"
    ELSE IF v.raydium = "wrong_program" THEN "InvalidFacilitator"
    ELSE IF v.raydium = "provided" /\ v.raydium_token_accounts /\ ~v.raydium_cpi_ok
    THEN "VenueError"
    ELSE "Ok"

\* The account constraint position.owner == owner.key() holds: the owner signs.
collect_fees(pid, v) ==
    /\ lastCall = Idle
    /\ pid \in DOMAIN positions
    /\ LET position == positions[pid]
           result == collect_fees_result(position, v) IN
       /\ lastCall' = Call("collect_fees", pid, None, Some(position.owner), v, result, <<>>,
                           <<create_audit_log_internal("FeesCollected", Some(pid),
                                                       position.owner, Clock)>>)
       /\ IF result = "Ok"
          THEN positions' = [positions EXCEPT ![pid] =
                                 [position EXCEPT !.total_fees_earned_a = 0,
                                                  !.total_fees_earned_b = 0,
                                                  !.updated_at = Clock.unix_timestamp]]
          ELSE UNCHANGED positions
    /\ UNCHANGED <<now, slot, decisions>>

-----------------------------------------------------------------------------
(* Guard: the detector (src/guard/src/detector.rs) *)

\* The texts that stand where a public key is expected, and the key each
\* decodes to.  Pubkey::from_str decodes base58 text to 32 bytes and fails on
\* any text that is not the base58 form of 32 bytes.
PubkeyTexts == {"SignerKey", "OtherKey", "AbsentKey", "MintKey", "not-a-key"}
parse_pubkey(s) ==
    IF s = "SignerKey" THEN Some(101)
    ELSE IF s = "OtherKey" THEN Some(102)
    ELSE IF s = "AbsentKey" THEN Some(103)
    ELSE IF s = "MintKey" THEN Some(104)
    ELSE None

\* serde_json values of the parsed instruction: a missing key indexes to Null;
\* a number is kept as its digits
JsonNull == [t |-> "null"]
JsonString(s) == [t |-> "string", v |-> s]
JsonNumber(n) == [t |-> "number", v |-> n]

\* Value::as_str
as_str(j) == IF j.t = "string" THEN Some(j.v) ELSE None

\* A Warning; message is the fixed text, or the text and the key it quotes
Warning(pattern_id, severity, message, affected_account) ==
    [ pattern_id |-> pattern_id, severity |-> severity, message |-> message,
      affected_account |-> affected_account ]

\* info["account"].as_str().and_then(|s| s.parse::<Pubkey>().ok())
account_of(info) ==
    LET a == as_str(info.account) IN
    IF a = None THEN None ELSE parse_pubkey(a[1])

\* The P-103 arm: a new authority that parses and is not a signer
signer_mismatch(what, new_auth_str, signers, account) ==
    LET new_auth_pubkey == parse_pubkey(new_auth_str) IN
    IF new_auth_pubkey # None /\ new_auth_pubkey[1] \notin signers
    THEN <<Warning("P103SignerMismatch", "Critical", <<what, new_auth_str>>, account)>>
    ELSE <<>>

\* analyze_set_authority with the freeze kill reported as Critical
analyze_set_authority_freeze_critical(parsed, signers) ==
    LET info == parsed.info
        authority_type == as_str(info.authorityType)
        new_authority == as_str(info.newAuthority)
        account == account_of(info)
    IN  IF authority_type = Some("mintTokens")
        THEN IF new_authority = None
             THEN <<Warning("P101MintKill", "Critical", <<"mint authority disabled">>, account)>>
             ELSE signer_mismatch("New mint authority", new_authority[1], signers, account)
        ELSE IF authority_type = Some("freezeAccount")
        THEN IF new_authority = None
             THEN <<Warning("P102FreezeKill", "Critical", <<"freeze authority lost">>, account)>>
             ELSE signer_mismatch("New freeze authority", new_authority[1], signers, account)
        ELSE IF authority_type \in {Some("accountOwner"), Some("closeAccount")}
        THEN IF new_authority # None
             THEN signer_mismatch("New authority", new_authority[1], signers, account)
             ELSE <<>>
        ELSE <<>>

\* analyze_set_authority
analyze_set_authority(parsed, signers) ==
    LET info == parsed.info
        authority_type == as_str(info.authorityType)
        new_authority == as_str(info.newAuthority)
        account == account_of(info)
    IN  IF authority_type = Some("mintTokens")
        THEN IF new_authority = None
             THEN <<Warning("P101MintKill", "Critical", <<"mint authority disabled">>, account)>>
             ELSE signer_mismatch("New mint authority", new_authority[1], signers, account)
        ELSE IF authority_type = Some("freezeAccount")
        THEN IF new_authority = None
             THEN <<Warning("P102FreezeKill", "Warning", <<"freeze authority lost">>, account)>>
             ELSE signer_mismatch("New freeze authority", new_authority[1], signers, account)
        ELSE IF authority_type \in {Some("accountOwner"), Some("closeAccount")}
        THEN IF new_authority # None
             THEN signer_mismatch("New authority", new_authority[1], signers, account)
             ELSE <<>>
        ELSE <<>>

\* analyze_close_account
analyze_close_account(parsed) ==
    <<Warning("P104DangerousClose", "Warning", <<"closing account">>, account_of(parsed.info))>>

\* the signers taken from every account key of the message
signers_of_any_key(account_keys) ==
    { parse_pubkey(account_keys[n].pubkey)[1] :
        n \in { m \in DOMAIN account_keys : parse_pubkey(account_keys[m].pubkey) # None } }

\* The signers of the message: the account keys flagged signer whose text
\* parses
signers_of(account_keys) ==
    { parse_pubkey(account_keys[n].pubkey)[1] :
        n \in { m \in DOMAIN account_keys :
                  account_keys[m].signer /\ parse_pubkey(account_keys[m].pubkey) # None } }

\* The body of the loop over the instructions: what one instruction adds
analyze_instruction(instruction, signers) ==
    IF instruction.kind = "Parsed"
         /\ instruction.program \in {"spl-token", "spl-token-2022"}
    THEN IF as_str(instruction.type) = Some("setAuthority")
         THEN analyze_set_authority(instruction, signers)
         ELSE IF as_str(instruction.type) = Some("closeAccount")
         THEN analyze_close_account(instruction)
         ELSE <<>>
    ELSE <<>>

RECURSIVE analyze_instructions(_, _)
analyze_instructions(instructions, signers) ==
    IF instructions = <<>> THEN <<>>
    ELSE analyze_instruction(Head(instructions), signers)
             \o analyze_instructions(Tail(instructions), signers)

\* analyze_transaction: always Ok(warnings); a transaction that is not JSON
\* encoded or whose message is raw gives no warning
analyze_transaction(tx) ==
    IF tx.encoding # "Json" THEN <<>>
    ELSE IF tx.message # "Parsed" THEN <<>>
    ELSE analyze_instructions(tx.instructions, signers_of(tx.account_keys))

\* Instructions and transactions handed to the detector.  The account keys:
\* one signer, one account that does not sign, and a signer entry whose text
\* is not a key.
AccountKeys ==
    << [pubkey |-> "SignerKey", signer |-> TRUE],
       [pubkey |-> "OtherKey", signer |-> FALSE],
       [pubkey |-> "not-a-key", signer |-> TRUE] >>

AuthorityTypes ==
    { JsonString("mintTokens"), JsonString("freezeAccount"), JsonString("accountOwner"),
      JsonString("closeAccount"), JsonString("transferFeeConfig"), JsonNull }

NewAuthorities ==
    { JsonNull, JsonString("SignerKey"), JsonString("OtherKey"), JsonString("AbsentKey"),
      JsonString("not-a-key"), JsonNumber("7") }

SetAuthority(program, authority_type, new_authority) ==
    [ kind |-> "Parsed", program |-> program, type |-> JsonString("setAuthority"),
      info |-> [ authorityType |-> authority_type, newAuthority |-> new_authority,
                 account |-> JsonString("MintKey") ] ]

CloseAccount(program, account) ==
    [ kind |-> "Parsed", program |-> program, type |-> JsonString("closeAccount"),
      info |-> [ authorityType |-> JsonNull, newAuthority |-> JsonNull, account |-> account ] ]

Transfer ==
    [ kind |-> "Parsed", program |-> "spl-token", type |-> JsonString("transfer"),
      info |-> [ authorityType |-> JsonNull, newAuthority |-> JsonNull,
                 account |-> JsonString("MintKey") ] ]

MintKill == SetAuthority("spl-token", JsonString("mintTokens"), JsonNull)

Instructions ==
    { SetAuthority("spl-token", t, a) : t \in AuthorityTypes, a \in NewAuthorities }
    \cup { SetAuthority("spl-token-2022", JsonString("freezeAccount"), a) : a \in NewAuthorities }
    \cup { SetAuthority("system", JsonString("mintTokens"), JsonNull),
           CloseAccount("spl-token", JsonString("MintKey")),
           CloseAccount("spl-token-2022", JsonNull),
           CloseAccount("system", JsonString("MintKey")),
           Transfer,
           [MintKill EXCEPT !.kind = "PartiallyDecoded"],
           [MintKill EXCEPT !.type = JsonNull] }

Transaction(instructions) ==
    [ encoding |-> "Json", message |-> "Parsed", account_keys |-> AccountKeys,
      instructions |-> instructions ]

Transactions ==
    { Transaction(<<i>>) : i \in Instructions }
    \cup { Transaction(<<i, j>>) :
              i \in { MintKill, CloseAccount("spl-token", JsonString("MintKey")), Transfer },
              j \in { MintKill, CloseAccount("spl-token", JsonString("MintKey")),
                      SetAuthority("spl-token", JsonString("accountOwner"), JsonString("OtherKey")),
                      SetAuthority("spl-token", JsonString("freezeAccount"), JsonNull) } }
    \cup { Transaction(<<>>),
           [Transaction(<<MintKill>>) EXCEPT !.encoding = "Binary"],
           [Transaction(<<MintKill>>) EXCEPT !.message = "Raw"] }

\* The Guard is not running: the state the specifications of the program keep
GuardNotRunning ==
    /\ processed_signatures = {}
    /\ lastPoll = None
    /\ analyzed = {}
    /\ transaction = None
    /\ warnings = None

\* The program's accounts as the Guard's specifications keep them
ProgramAtGenesis ==
    /\ now = StartTime
    /\ slot = 0
    /\ positions = <<>>
    /\ decisions = <<>>
    /\ lastCall = Idle
    /\ auditLog = <<>>

\* A transaction is handed to analyze_transaction, which returns its warnings
Analyze ==
    /\ transaction # None
    /\ warnings = None
    /\ warnings' = Some(analyze_transaction(transaction[1]))
    /\ UNCHANGED <<now, slot, positions, decisions, lastCall, auditLog,
                   processed_signatures, lastPoll, analyzed, transaction>>

InitDetector ==
    /\ ProgramAtGenesis
    /\ processed_signatures = {}
    /\ lastPoll = None
    /\ analyzed = {}
    /\ transaction \in { Some(tx) : tx \in Transactions }
    /\ warnings = None

NextDetector == Analyze

SpecDetector == InitDetector /\ [][NextDetector]_vars

-----------------------------------------------------------------------------
(* Guard: the watch loop (src/guard/src/main.rs) *)

TakeLimit == 10         \* signatures.iter().take(10)

\* The signature texts the RPC node returns, and the signature each decodes
\* to.  Signature::from_str decodes base58 text to 64 bytes and fails on any
\* other text.
SignatureTexts ==
    <<"sig01", "sig02", "sig03", "sig04", "sig05", "sig06", "sig07", "sig08", "sig09",
      "sig10", "sig11">>
parse_signature(text) ==
    IF \E n \in DOMAIN SignatureTexts : SignatureTexts[n] = text
    THEN Some(CHOOSE n \in DOMAIN SignatureTexts : SignatureTexts[n] = text)
    ELSE None

\* The transaction the cluster holds for a signature: one that removes a mint
\* authority, one that closes an account and hands another to a key that does
\* not sign, and transfers.
TransactionOf(signature) ==
    IF signature = 1 THEN Transaction(<<MintKill>>)
    ELSE IF signature = 2
    THEN Transaction(<<CloseAccount("spl-token", JsonString("MintKey")),
                       SetAuthority("spl-token", JsonString("accountOwner"),
                                    JsonString("OtherKey"))>>)
    ELSE Transaction(<<Transfer>>)

\* What the RPC node answers during one poll: the signatures of the program,
\* newest first (None when get_signatures_for_address fails), and the
\* signatures whose get_transaction_with_config fails.
SignatureLists ==
    { <<"sig01">>,
      <<"sig02", "sig01">>,
      <<"sig03", "sig02", "sig01">>,
      <<"sig04", "sig03", "sig02", "sig01">>,
      <<"not-a-signature", "sig02", "sig01">>,
      <<"sig11", "sig10", "sig09", "sig08", "sig07", "sig06", "sig05", "sig04", "sig03",
        "sig02", "sig01">> }
FailingFetches == { {}, {1}, {1, 2} }
RpcAnswers ==
    { [signatures |-> Some(l), failing |-> f] : l \in SignatureLists, f \in FailingFetches }
    \cup { [signatures |-> None, failing |-> {}] }

\* signatures.iter().take(10)
take(signatures, n) ==
    SubSeq(signatures, 1, IF Len(signatures) < n THEN Len(signatures) ELSE n)

\* What one call of fetch_and_analyze_transactions has done so far
BatchStart(processed) ==
    [ processed |-> processed, fetched |-> <<>>, failed |-> {}, analyzed |-> <<>>,
      warning_count |-> 0 ]

\* one turn of the for loop that marks a signature processed whether or not
\* its transaction was fetched
process_signature_marking_failures(st, text, failing) ==
    IF text \in st.processed THEN st
    ELSE LET signature == parse_signature(text) IN
         IF signature = None THEN st
         ELSE LET inserted == st.processed \cup {text}
                  kept == IF Cardinality(inserted) > CacheLimit THEN {} ELSE inserted
              IN  IF signature[1] \in failing
                  THEN [st EXCEPT !.fetched = Append(@, text),
                                  !.failed = @ \cup {text},
                                  !.processed = kept]
                  ELSE [st EXCEPT !.fetched = Append(@, text),
                                  !.analyzed = Append(@, text),
                                  !.warning_count =
                                      @ + Len(analyze_transaction(TransactionOf(signature[1]))),
                                  !.processed = kept]

\* One turn of the for loop of fetch_and_analyze_transactions: skip a
\* processed signature and a text that does not parse; fetch the transaction;
\* if that fails, warn and go on; otherwise analyze it, count its warnings,
\* mark the signature processed and empty the set if it has grown past the
\* limit.  analyze_transaction never returns Err.
process_signature(st, text, failing) ==
    IF text \in st.processed THEN st
    ELSE LET signature == parse_signature(text) IN
         IF signature = None THEN st
         ELSE IF signature[1] \in failing
         THEN [st EXCEPT !.fetched = Append(@, text),
                         !.failed = @ \cup {text}]
         ELSE LET inserted == st.processed \cup {text} IN
              [st EXCEPT !.fetched = Append(@, text),
                         !.analyzed = Append(@, text),
                         !.warning_count =
                             @ + Len(analyze_transaction(TransactionOf(signature[1]))),
                         !.processed =
                             IF Cardinality(inserted) > CacheLimit THEN {} ELSE inserted]

RECURSIVE process_signatures(_, _, _)
process_signatures(st, signatures, failing) ==
    IF signatures = <<>> THEN st
    ELSE process_signatures(process_signature(st, Head(signatures), failing),
                            Tail(signatures), failing)

\* The elements of a sequence
Range(s) == { s[n] : n \in DOMAIN s }

\* The loop is about to poll; unfetched are the signatures whose last fetch
\* failed, retried those of them the poll fetched.
Polling(unfetched) ==
    [ pc |-> "polling", result |-> "None", returned |-> <<>>, fetched |-> <<>>,
      failed |-> {}, analyzed |-> <<>>, warning_count |-> 0,
      unfetched |-> unfetched, retried |-> {} ]

\* One turn of the loop of run_watch up to the sleep: the call of
\* fetch_and_analyze_transactions and the match on its result.  An Err is
\* logged and the loop goes on.
fetch_and_analyze_transactions(answer) ==
    /\ lastPoll # None
    /\ lastPoll.pc = "polling"
    /\ IF answer.signatures = None
       THEN /\ lastPoll' = [lastPoll EXCEPT !.pc = "sleeping", !.result = "Err"]
            /\ UNCHANGED <<processed_signatures, analyzed>>
       ELSE LET st == process_signatures(BatchStart(processed_signatures),
                                         take(answer.signatures[1], TakeLimit),
                                         answer.failing)
            IN  /\ processed_signatures' = st.processed
                /\ analyzed' = analyzed \cup Range(st.analyzed)
                /\ lastPoll' =
                       [ pc |-> "sleeping", result |-> "Ok",
                         returned |-> answer.signatures[1],
                         fetched |-> st.fetched, failed |-> st.failed,
                         analyzed |-> st.analyzed, warning_count |-> st.warning_count,
                         unfetched |-> (lastPoll.unfetched \ Range(st.analyzed)) \cup st.failed,
                         retried |-> lastPoll.unfetched \cap Range(st.fetched) ]
    /\ UNCHANGED <<now, slot, positions, decisions, lastCall, auditLog, transaction, warnings>>

\* tokio::time::sleep(poll_interval) returns and the loop starts over
sleep ==
    /\ lastPoll # None
    /\ lastPoll.pc = "sleeping"
    /\ lastPoll' = Polling(lastPoll.unfetched)
    /\ UNCHANGED <<now, slot, positions, decisions, lastCall, auditLog,
                   processed_signatures, analyzed, transaction, warnings>>

\* run_watch has connected and enters the loop with an empty set
InitWatch ==
    /\ ProgramAtGenesis
    /\ processed_signatures = {}
    /\ lastPoll = Polling({})
    /\ analyzed = {}
    /\ transaction = None
    /\ warnings = None

NextWatch ==
    \/ \E answer \in RpcAnswers : fetch_and_analyze_transactions(answer)
    \/ sleep

SpecWatch == InitWatch /\ [][NextWatch]_vars

\* The loop is one thread: every RPC call returns (with a result or an
\* error) and the sleep ends, so a step of the loop that can be taken is
\* taken.
SpecWatchFair ==
    /\ SpecWatch
    /\ WF_vars(\E answer \in RpcAnswers : fetch_and_analyze_transactions(answer))
    /\ WF_vars(sleep)

-----------------------------------------------------------------------------
(* The clock and the specification *)

\* The cluster clock advances between transactions.
Tick ==
    /\ lastCall = Idle
    /\ slot < MaxTicks
    /\ slot' = slot + 1
    /\ now' = now + TickSeconds
    /\ UNCHANGED <<positions, decisions, lastCall, auditLog, guardVars>>

\* The transaction's result has been returned to its caller; the client sends
\* the next instruction.
Return ==
    /\ lastCall # Idle
    /\ lastCall' = Idle
    /\ UNCHANGED <<now, slot, positions, decisions, auditLog, guardVars>>

\* After initialize_protocol_config: no position and no decision yet.
Init ==
    /\ now = StartTime
    /\ slot = 0
    /\ positions = <<>>
    /\ decisions = <<>>
    /\ lastCall = Idle
    /\ auditLog = <<>>
    /\ GuardNotRunning

Next ==
    \/ Tick
    \/ Return
    \/ \E pid \in PositionIds, a \in CreateInputs : create_liquidity_position(pid, a) /\ UNCHANGED <<auditLog, guardVars>>
    \/ \E pid \in PositionIds, i \in DecisionIndexes, a \in ProposeInputs :
           create_rebalance_decision(pid, i, a) /\ UNCHANGED <<auditLog, guardVars>>
    \/ \E pid \in PositionIds, i \in DecisionIndexes, k \in Keys : approve_rebalance(pid, i, k) /\ UNCHANGED <<auditLog, guardVars>>
    \/ \E pid \in PositionIds, i \in DecisionIndexes, x \in ExecuteInputs :
           execute_rebalance(pid, i, x) /\ UNCHANGED <<auditLog, guardVars>>
    \/ \E pid \in PositionIds, v \in VenueScenarios : collect_fees(pid, v) /\ UNCHANGED <<auditLog, guardVars>>

Spec == Init /\ [][Next]_vars

-----------------------------------------------------------------------------
(* create_rebalance_decision over every Position account.  No instruction   *)
(* writes status or total_value_locked after create_liquidity_position, so  *)
(* the checks that read them are exercised on Position accounts whose       *)
(* fields range over their types, with metrics on both sides of every       *)
(* threshold of assess_risk.                                                *)

AccountPosition == <<"alice", 0>>
OtherPosition == <<"bob", 0>>

ValueLockedSamples ==
    { 0, RequireHumanApprovalThreshold - 1, RequireHumanApprovalThreshold,
      RequireHumanApprovalThreshold + 1 }

ConfidenceSamples == {0, 4000, 4999, 5000, 6999, 7000, 8499, 8500, 9000, 10000}
SentimentSamples == {-10000, -5001, -5000, 0, 10000}
VolatilitySamples == {0, 4000, 4001, 6000, 6001, 8000, 8001, 10000}

WideProposeInputs ==
    { [GoodPropose EXCEPT !.metrics = <<c, s, v>>] :
          c \in ConfidenceSamples, s \in SentimentSamples, v \in VolatilitySamples }
    \cup { [GoodPropose EXCEPT !.tick = <<20, 20>>],
           [GoodPropose EXCEPT !.tick = <<20, -20>>, !.price = <<222, 111>>],
           [GoodPropose EXCEPT !.price = <<210, 210>>],
           [GoodPropose EXCEPT !.price = <<222, 111>>, !.metrics = <<4000, 0, 0>>] }

InitAccounts ==
    /\ now = StartTime
    /\ slot = 0
    /\ \E status \in PositionStatus, value_locked \in ValueLockedSamples,
          last_rebalance \in {0, StartTime} :
           positions = (AccountPosition :>
               [new_position(AccountPosition[1], GoodCreate, [unix_timestamp |-> StartTime, slot |-> 0])
                    EXCEPT !.status = status,
                           !.total_value_locked = value_locked,
                           !.last_rebalance_timestamp = last_rebalance])
    /\ decisions = <<>>
    /\ lastCall = Idle
    /\ auditLog = <<>>
    /\ GuardNotRunning

NextAccounts ==
    \/ Tick
    \/ Return
    \/ \E a \in WideProposeInputs : create_rebalance_decision(AccountPosition, 0, a) /\ UNCHANGED <<auditLog, guardVars>>

SpecAccounts == InitAccounts /\ [][NextAccounts]_vars

-----------------------------------------------------------------------------
(* The handlers over stored accounts.  rebalance_count reaches u32::MAX     *)
(* only after 2^32 - 1 rebalances, and no instruction writes                *)
(* liquidity_amount or any execution_status but Executed, so propose,       *)
(* approve and execute are also run from a Position and a first Decision    *)
(* whose fields range over their types: the counter at zero, at a limb      *)
(* carry, one below the maximum and at the maximum, the position with and   *)
(* without liquidity, the decision in each ExecutionStatus.                 *)

CountSamples == {U32(0), <<0, U16Max>>, <<U16Max, U16Max - 1>>, U32Max}
LiquiditySamples == {0, 1}
StoredProposeInputs ==
    { GoodPropose,
      [GoodPropose EXCEPT !.metrics = <<4000, 0, 0>>],
      [GoodPropose EXCEPT !.jupiter_swap_transaction = Some("tx")] }

\* A position that was rebalanced count times, the last time at StartTime.
stored_position(count, liquidity) ==
    [new_position(AccountPosition[1], GoodCreate, [unix_timestamp |-> StartTime, slot |-> 0])
         EXCEPT !.rebalance_count = count,
                !.liquidity_amount = liquidity,
                !.last_rebalance_timestamp = IF count = U32(0) THEN 0 ELSE StartTime]

\* Its first decision, in the given status.
stored_decision(a, status) ==
    [new_decision(AccountPosition, stored_position(U32(0), 0), a,
                  [unix_timestamp |-> StartTime, slot |-> 0])
         EXCEPT !.execution_status = status,
                !.executed_at = IF status = "Executed" THEN Some(StartTime) ELSE None]

InitStored ==
    /\ now = StartTime
    /\ slot = 0
    /\ \E count \in CountSamples, liquidity \in LiquiditySamples,
          a \in StoredProposeInputs, status \in ExecutionStatus :
           /\ status = "Executed" => count # U32(0)
           /\ positions = (AccountPosition :> stored_position(count, liquidity))
           /\ decisions = (<<AccountPosition, 0>> :> stored_decision(a, status))
    /\ lastCall = Idle
    /\ auditLog = <<>>
    /\ GuardNotRunning

NextStored ==
    \/ Tick
    \/ Return
    \/ \E a \in StoredProposeInputs : create_rebalance_decision(AccountPosition, 1, a) /\ UNCHANGED <<auditLog, guardVars>>
    \/ \E i \in DecisionIndexes, k \in Keys : approve_rebalance(AccountPosition, i, k) /\ UNCHANGED <<auditLog, guardVars>>
    \/ \E i \in DecisionIndexes, x \in ExecuteInputs : execute_rebalance(AccountPosition, i, x) /\ UNCHANGED <<auditLog, guardVars>>

SpecStored == InitStored /\ [][NextStored]_vars

-----------------------------------------------------------------------------
(* The audit trail.  The handlers run from a fresh deployment by two owners, *)
(* and the reader of the transaction log appends the audit lines of every   *)
(* transaction to auditLog.                                                 *)

AuditedPositions == {AccountPosition, OtherPosition}

\* Calls of execute_rebalance by every approver account, and with the
\* Raydium accounts, the venue accepting and refusing its calls
FewExecuteInputs ==
    { [GoodExecute EXCEPT !.approver = a] : a \in Approvers }
    \cup { [GoodExecute EXCEPT !.venue = v] :
              v \in {WithRaydium, [WithRaydium EXCEPT !.raydium_cpi_ok = FALSE]} }

\* The reader has appended the lines of the transaction of this step.
Logged ==
    /\ auditLog' = auditLog \o lastCall'.audit
    /\ Len(auditLog') <= MaxAuditLines
    /\ UNCHANGED guardVars

NextAudit ==
    \/ Tick
    \/ Return
    \/ \E pid \in AuditedPositions, a \in CreateInputs : create_liquidity_position(pid, a) /\ Logged
    \/ \E pid \in AuditedPositions, a \in StoredProposeInputs :
           create_rebalance_decision(pid, 0, a) /\ Logged
    \/ \E pid \in AuditedPositions, k \in Keys : approve_rebalance(pid, 0, k) /\ Logged
    \/ \E pid \in AuditedPositions, x \in FewExecuteInputs :
           execute_rebalance(pid, 0, x) /\ Logged
    \/ \E pid \in AuditedPositions : collect_fees(pid, LocalOnly) /\ Logged

SpecAudit == Init /\ [][NextAudit]_vars

-----------------------------------------------------------------------------
(* collect_fees over stored accounts.  create_liquidity_position sets the   *)
(* two fee counters to zero and no instruction raises them, so collect_fees *)
(* is also run from a Position whose counters and status range over their   *)
(* types, next to propose, approve and execute on its first Decision.       *)

FeeSamples == {0, 1}

InitFees ==
    /\ now = StartTime
    /\ slot = 0
    /\ \E status \in PositionStatus, fees_a \in FeeSamples, fees_b \in FeeSamples :
           positions = (AccountPosition :>
               [new_position(AccountPosition[1], GoodCreate, [unix_timestamp |-> StartTime, slot |-> 0])
                    EXCEPT !.status = status,
                           !.total_fees_earned_a = fees_a,
                           !.total_fees_earned_b = fees_b])
    /\ decisions = <<>>
    /\ lastCall = Idle
    /\ auditLog = <<>>
    /\ GuardNotRunning

NextFees ==
    \/ Tick
    \/ Return
    \/ \E v \in VenueScenarios : collect_fees(AccountPosition, v) /\ UNCHANGED <<auditLog, guardVars>>
    \/ \E a \in StoredProposeInputs : create_rebalance_decision(AccountPosition, 0, a) /\ UNCHANGED <<auditLog, guardVars>>
    \/ \E k \in Keys : approve_rebalance(AccountPosition, 0, k) /\ UNCHANGED <<auditLog, guardVars>>
    \/ \E x \in ExecuteInputs : execute_rebalance(AccountPosition, 0, x) /\ UNCHANGED <<auditLog, guardVars>>

SpecFees == InitFees /\ [][NextFees]_vars

-----------------------------------------------------------------------------

(* execute_rebalance and approve_rebalance among several accounts: the      *)
(* positions of two owners, created at StartTime, with two Pending          *)
(* decisions proposed for the first and one for the second.                 *)

InitSeveral ==
    LET clock == [unix_timestamp |-> StartTime, slot |-> 0]
        created(pid) == new_position(pid[1], GoodCreate, clock)
        proposed(pid, a) == new_decision(pid, created(pid), a, clock)
    IN  /\ now = StartTime
        /\ slot = 0
        /\ positions = (AccountPosition :> created(AccountPosition))
                           @@ (OtherPosition :> created(OtherPosition))
        /\ \E a \in StoredProposeInputs, b \in StoredProposeInputs :
               decisions = (<<AccountPosition, 0>> :> proposed(AccountPosition, a))
                               @@ (<<AccountPosition, 1>> :> proposed(AccountPosition, b))
                               @@ (<<OtherPosition, 0>> :> proposed(OtherPosition, b))
        /\ lastCall = Idle
        /\ auditLog = <<>>
        /\ GuardNotRunning

NextSeveral ==
    \/ Tick
    \/ Return
    \/ \E d \in DOMAIN decisions, k \in Keys : approve_rebalance(d[1], d[2], k) /\ UNCHANGED <<auditLog, guardVars>>
    \/ \E d \in DOMAIN decisions, x \in FewExecuteInputs :
           execute_rebalance(d[1], d[2], x) /\ UNCHANGED <<auditLog, guardVars>>

SpecSeveral == InitSeveral /\ [][NextSeveral]_vars

-----------------------------------------------------------------------------

(* calculate_swap_requirements and calculate_swap_amount over their inputs: *)
(* a position created with any lower price up to MaxPrice and a Pending     *)
(* decision proposed for it with any lower price up to MaxPrice, then       *)
(* execute_rebalance on that decision.                                      *)

PriceWidth == 100

InitSwap ==
    LET clock == [unix_timestamp |-> StartTime, slot |-> 0] IN
    /\ now = StartTime
    /\ slot = 0
    /\ \E price_lower \in 0..MaxPrice, new_price_lower \in 0..MaxPrice :
           LET position ==
                   new_position(AccountPosition[1],
                                [GoodCreate EXCEPT !.price = <<price_lower, price_lower + PriceWidth>>],
                                clock)
           IN  /\ positions = (AccountPosition :> position)
               /\ decisions = (<<AccountPosition, 0>> :>
                      new_decision(AccountPosition, position,
                                   [GoodPropose EXCEPT !.price = <<new_price_lower,
                                                                   new_price_lower + PriceWidth>>],
                                   clock))
    /\ lastCall = Idle
    /\ auditLog = <<>>
    /\ GuardNotRunning

NextSwap ==
    \/ Tick
    \/ Return
    \/ \E x \in ExecuteInputs : execute_rebalance(AccountPosition, 0, x) /\ UNCHANGED <<auditLog, guardVars>>

SpecSwap == InitSwap /\ [][NextSwap]_vars

-----------------------------------------------------------------------------

(* Properties.  The errors of the program carry these names in the          *)
(* specification: InvalidPriceRange is InvalidRange, RebalanceTooFrequent   *)
(* is RateLimited, InvalidExecutionStatus is InvalidState and               *)
(* HumanApprovalRequired is ApprovalRequired.                               *)

\* The decision account a call was given
CallDecision(call) == <<call.position[1], call.index[1]>>

\* The value of a u32 below 2^31
u32_value(c) == c[1] * (U16Max + 1) + c[2]

Executed(decs, pid) ==
    {did \in DOMAIN decs : did[1] = pid /\ decs[did].execution_status = "Executed"}

HasExecuted(decs, pid) == Executed(decs, pid) # {}

\* The time of the last successful execute_rebalance on the position
LastExecutedAt(decs, pid) ==
    CHOOSE t \in {decs[did].executed_at[1] : did \in Executed(decs, pid)} :
        \A did \in Executed(decs, pid) : decs[did].executed_at[1] <= t

\* C1: of the execute_rebalance calls on one decision (the runtime serialises
\* them) only one commits: a call that succeeds finds the decision Pending,
\* leaves it Executed and adds exactly 1 to rebalance_count; a call on a
\* decision already Executed fails with InvalidExecutionStatus and changes
\* neither the position nor the decision.
C1_OneExecutePerDecision ==
    [][ \A did \in DOMAIN decisions :
          (lastCall'.op = "execute_rebalance" /\ CallDecision(lastCall') = did) =>
              /\ decisions[did].execution_status = "Executed" =>
                     /\ lastCall'.result = "InvalidExecutionStatus"
                     /\ positions' = positions
                     /\ decisions' = decisions
              /\ lastCall'.result = "Ok" =>
                     /\ decisions[did].execution_status = "Pending"
                     /\ decisions'[did].execution_status = "Executed"
                     /\ u32_value(positions'[did[1]].rebalance_count)
                            = u32_value(positions[did[1]].rebalance_count) + 1
      ]_vars

\* A second execute_rebalance on a decision has just failed after the first
\* committed it.
C1_Witness ==
    /\ lastCall.op = "execute_rebalance"
    /\ lastCall.result = "InvalidExecutionStatus"
    /\ decisions[CallDecision(lastCall)].execution_status = "Executed"
    /\ u32_value(positions[lastCall.position[1]].rebalance_count) = 1

\* C2: a decision that requires human approval is Executed only with an
\* approver recorded on it, and the execute_rebalance call that committed it
\* was signed by that approver.
C2_ExecutedByRecordedApprover ==
    \A did \in DOMAIN decisions :
        (decisions[did].requires_human_approval
           /\ decisions[did].execution_status = "Executed") =>
            /\ decisions[did].human_approver # None
            /\ (lastCall.op = "execute_rebalance" /\ lastCall.result = "Ok"
                  /\ CallDecision(lastCall) = did)
                   => lastCall.signer = decisions[did].human_approver

\* An approved decision has just been committed by its approver.
C2_Witness ==
    /\ lastCall.op = "execute_rebalance"
    /\ lastCall.result = "Ok"
    /\ decisions[CallDecision(lastCall)].requires_human_approval
    /\ decisions[CallDecision(lastCall)].human_approver = lastCall.signer

\* C3: once an approver is recorded on a decision, no step changes the
\* approver or the approval timestamp, and approve_rebalance on the (still
\* Pending) decision fails with AlreadyApproved.
C3_ApproverSetAtMostOnce ==
    [][ \A did \in DOMAIN decisions :
          decisions[did].human_approver # None =>
              /\ decisions'[did].human_approver = decisions[did].human_approver
              /\ decisions'[did].approval_timestamp = decisions[did].approval_timestamp
              /\ (lastCall'.op = "approve_rebalance" /\ CallDecision(lastCall') = did
                    /\ decisions[did].execution_status = "Pending")
                     => lastCall'.result = "AlreadyApproved"
      ]_vars

\* C4: a successful execute_rebalance on a position that was rebalanced before
\* comes at least min_rebalance_interval after the last successful one.
C4_CommitsRateLimited ==
    [][ \A pid \in DOMAIN positions :
          (lastCall'.op = "execute_rebalance" /\ lastCall'.result = "Ok"
             /\ lastCall'.position = Some(pid) /\ HasExecuted(decisions, pid)) =>
              now' - LastExecutedAt(decisions, pid) >= positions[pid].min_rebalance_interval
      ]_vars

\* C5: every decision has requires_human_approval exactly when its risk is
\* High or Critical or the total value locked of its position is at least
\* the approval threshold of the config.
C5_ApprovalRequirement ==
    \A did \in DOMAIN decisions :
        decisions[did].requires_human_approval =
            ( \/ decisions[did].risk_assessment \in {"High", "Critical"}
              \/ positions[decisions[did].position].total_value_locked
                     >= config.require_human_approval_threshold )

\* A decision of low or medium risk requires approval because the value
\* locked equals the threshold.
C5_Witness ==
    \E did \in DOMAIN decisions :
        /\ decisions[did].risk_assessment \in {"Low", "Medium"}
        /\ positions[decisions[did].position].total_value_locked
               = config.require_human_approval_threshold
        /\ decisions[did].requires_human_approval

\* C6: the risk tier of every decision is the reference classification of its
\* metrics: Critical if confidence < 5000 or volatility > 8000; else High if
\* confidence < 7000 or volatility > 6000 or sentiment < -5000; else Medium
\* if confidence < 8500 or volatility > 4000; else Low.
C6_ClassifyMatchesReference ==
    /\ \A did \in DOMAIN decisions :
           LET c == decisions[did].prediction_confidence
               s == decisions[did].market_sentiment_score
               v == decisions[did].volatility_metric
               critical == c < 5000 \/ v > 8000
               high == c < 7000 \/ v > 6000 \/ s < -5000
               medium == c < 8500 \/ v > 4000
           IN  /\ decisions[did].risk_assessment \in RiskLevel
               /\ decisions[did].risk_assessment = "Critical" <=> critical
               /\ decisions[did].risk_assessment = "High" <=> ~critical /\ high
               /\ decisions[did].risk_assessment = "Medium" <=> ~critical /\ ~high /\ medium
               /\ decisions[did].risk_assessment = "Low" <=> ~critical /\ ~high /\ ~medium
    /\ \A did \in DOMAIN decisions :
           /\ (decisions[did].prediction_confidence = 4000
                 /\ decisions[did].market_sentiment_score = 0
                 /\ decisions[did].volatility_metric = 0)
                  => decisions[did].risk_assessment = "Critical"
           /\ (decisions[did].prediction_confidence = 9000
                 /\ decisions[did].market_sentiment_score = 0
                 /\ decisions[did].volatility_metric = 0)
                  => decisions[did].risk_assessment = "Low"

\* A decision whose three metrics sit on the thresholds 8500, -5000 and 4000
\* is of low risk.
C6_Witness ==
    \E did \in DOMAIN decisions :
        /\ decisions[did].prediction_confidence = 8500
        /\ decisions[did].market_sentiment_score = -5000
        /\ decisions[did].volatility_metric = 4000
        /\ decisions[did].risk_assessment = "Low"

\* C7: create_rebalance_decision returns PositionNotActive if the position is
\* not Active; otherwise RebalanceTooFrequent if less than
\* min_rebalance_interval has passed since last_rebalance_timestamp;
\* otherwise InvalidPriceRange if a lower bound is not below its upper bound;
\* otherwise it succeeds.  A failing call creates no decision.
C7_ProposeFirstFailure ==
    lastCall.op = "create_rebalance_decision" =>
        LET position == positions[lastCall.position[1]]
            a == lastCall.args[1]
            not_active == position.status # "Active"
            rate_limited == now - position.last_rebalance_timestamp
                                < position.min_rebalance_interval
            invalid_range == a.tick[1] >= a.tick[2] \/ a.price[1] >= a.price[2]
        IN  /\ lastCall.result =
                   IF not_active THEN "PositionNotActive"
                   ELSE IF rate_limited THEN "RebalanceTooFrequent"
                   ELSE IF invalid_range THEN "InvalidPriceRange"
                   ELSE "Ok"
            /\ lastCall.result # "Ok" => CallDecision(lastCall) \notin DOMAIN decisions
            /\ lastCall.result = "Ok" => CallDecision(lastCall) \in DOMAIN decisions

\* A call that breaks all three requirements at once was answered
\* PositionNotActive.
C7_Witness ==
    /\ lastCall.op = "create_rebalance_decision"
    /\ lastCall.result = "PositionNotActive"
    /\ now - positions[lastCall.position[1]].last_rebalance_timestamp
           < positions[lastCall.position[1]].min_rebalance_interval
    /\ lastCall.args[1].tick[1] >= lastCall.args[1].tick[2]
    /\ lastCall.args[1].price[1] >= lastCall.args[1].price[2]

\* C8: create_rebalance_decision never changes a position, and on an Active
\* position it returns RebalanceTooFrequent exactly when a successful
\* execute_rebalance on the position lies less than min_rebalance_interval
\* back; pending decisions of the position do not count.
C8_ProposeGatedOnLastExecute ==
    [][ lastCall'.op = "create_rebalance_decision" =>
          LET pid == lastCall'.position[1]
              recent == /\ HasExecuted(decisions, pid)
                        /\ now' - LastExecutedAt(decisions, pid)
                               < positions[pid].min_rebalance_interval
          IN  /\ positions' = positions
              /\ positions[pid].status = "Active" =>
                     (lastCall'.result = "RebalanceTooFrequent" <=> recent)
      ]_vars

\* A second decision has just been created for a position whose first
\* decision is still Pending.
C8_Witness ==
    /\ lastCall.op = "create_rebalance_decision"
    /\ lastCall.result = "Ok"
    /\ lastCall.index = Some(1)
    /\ decisions[<<lastCall.position[1], 0>>].execution_status = "Pending"
    /\ ~HasExecuted(decisions, lastCall.position[1])

\* C9: approve_rebalance returns ApprovalNotRequired on a decision that does
\* not require approval, otherwise InvalidExecutionStatus on a decision that
\* is not Pending; otherwise it succeeds, records the signer as approver with
\* the current time and writes one HumanApprovalGranted audit line.
C9_ApproveOutcome ==
    lastCall.op = "approve_rebalance" =>
        LET d == decisions[CallDecision(lastCall)] IN
        /\ lastCall.result =
               IF ~d.requires_human_approval THEN "ApprovalNotRequired"
               ELSE IF d.execution_status # "Pending" THEN "InvalidExecutionStatus"
               ELSE "Ok"
        /\ lastCall.result = "Ok" =>
               /\ d.human_approver = lastCall.signer
               /\ d.approval_timestamp = Some(now)
               /\ Len(lastCall.audit) = 1
               /\ lastCall.audit[1].event_type = "HumanApprovalGranted"
               /\ Some(lastCall.audit[1].user) = lastCall.signer
        /\ lastCall.result # "Ok" => lastCall.audit = <<>>

\* approve_rebalance has just been refused on a decision that requires
\* approval and is already Executed.
C9_Witness ==
    /\ lastCall.op = "approve_rebalance"
    /\ lastCall.result = "InvalidExecutionStatus"
    /\ decisions[CallDecision(lastCall)].requires_human_approval
    /\ decisions[CallDecision(lastCall)].execution_status = "Executed"

\* C10: execute_rebalance on a Pending decision that requires approval and has
\* no approver recorded returns HumanApprovalRequired, whatever signer and
\* slippage tolerance it is given, and changes no position and no decision.
C10_UnapprovedExecuteRefused ==
    [][ \A did \in DOMAIN decisions :
          (lastCall'.op = "execute_rebalance" /\ CallDecision(lastCall') = did
             /\ decisions[did].execution_status = "Pending"
             /\ decisions[did].requires_human_approval
             /\ decisions[did].human_approver = None) =>
              /\ lastCall'.result = "HumanApprovalRequired"
              /\ positions' = positions
              /\ decisions' = decisions
      ]_vars

\* execute_rebalance, signed and within the slippage bound, has just been
\* refused on an unapproved decision.
C10_Witness ==
    /\ lastCall.op = "execute_rebalance"
    /\ lastCall.result = "HumanApprovalRequired"
    /\ lastCall.signer # None
    /\ slippage_tolerance_ok(lastCall.args[1].slippage_tolerance_bps)
    /\ decisions[CallDecision(lastCall)].execution_status = "Pending"
    /\ decisions[CallDecision(lastCall)].requires_human_approval
    /\ decisions[CallDecision(lastCall)].human_approver = None

\* The status and approval requirements of execute_rebalance, as the
\* specification states them: the decision is Pending and, if it requires
\* approval, an approver is recorded and the call is signed by that approver.
StatusAndApprovalMet(d, call) ==
    /\ d.execution_status = "Pending"
    /\ d.requires_human_approval =>
           /\ d.human_approver # None
           /\ call.signer = d.human_approver

\* C11: an execute_rebalance call that meets the status and approval
\* requirements returns SlippageTooHigh (SlippageBoundInvalid) whenever its
\* slippage_tolerance_bps exceeds twice the default tolerance of the config,
\* before any venue call and without any write; at exactly twice the default
\* the bound is accepted (the call succeeds when no venue is involved, and
\* SlippageTooHigh can then only come from a route plan above the tolerance);
\* a call that fails the status or approval requirement is never answered
\* SlippageTooHigh.
C11_SlippageBound ==
    [][ \A did \in DOMAIN decisions :
          (lastCall'.op = "execute_rebalance" /\ CallDecision(lastCall') = did) =>
              LET x == lastCall'.args[1]
                  bound == 2 * config.default_slippage_tolerance_bps
              IN  IF StatusAndApprovalMet(decisions[did], lastCall')
                  THEN /\ x.slippage_tolerance_bps > bound =>
                              /\ lastCall'.result = "SlippageTooHigh"
                              /\ lastCall'.venue = <<>>
                              /\ positions' = positions
                              /\ decisions' = decisions
                       /\ (x.slippage_tolerance_bps = bound /\ x.venue = LocalOnly) =>
                              lastCall'.result = "Ok"
                       /\ (x.slippage_tolerance_bps = bound
                             /\ lastCall'.result = "SlippageTooHigh") =>
                              /\ x.venue.route_plan # None
                              /\ x.venue.route_plan[1].slippage_bps > bound
                  ELSE lastCall'.result # "SlippageTooHigh"
      ]_vars

\* A signed call on a Pending decision that needs a swap, with the Jupiter
\* accounts and a route plan, was refused for a tolerance one above the bound
\* before the venue was called.
C11_Witness ==
    /\ lastCall.op = "execute_rebalance"
    /\ lastCall.result = "SlippageTooHigh"
    /\ lastCall.args[1].slippage_tolerance_bps = 2 * config.default_slippage_tolerance_bps + 1
    /\ lastCall.args[1].venue = WithJupiter
    /\ lastCall.venue = <<>>
    /\ decisions[CallDecision(lastCall)].execution_status = "Pending"
    /\ calculate_swap_requirements(positions[lastCall.position[1]],
                                   decisions[CallDecision(lastCall)])

\* The venue calls an execute_rebalance call made
Called(call, venue_call) == \E n \in DOMAIN call.venue : call.venue[n] = venue_call

\* C12: when execute_rebalance has the venue execute a swap and the swap
\* realises a slippage above slippage_tolerance_bps, the call fails with
\* SlippageTooHigh (SlippageExceeded) and writes neither the decision, which
\* stays Pending, nor the position.
C12_RealisedSlippageRefused ==
    [][ (lastCall'.op = "execute_rebalance"
           /\ Called(lastCall', "swap")
           /\ lastCall'.args[1].venue.jupiter_cpi_ok
           /\ lastCall'.args[1].venue.swap_slippage_bps
                  > lastCall'.args[1].slippage_tolerance_bps) =>
            /\ lastCall'.result = "SlippageTooHigh"
            /\ decisions' = decisions
            /\ positions' = positions
      ]_vars

\* C13: a successful execute_rebalance met the status, approval and slippage
\* requirements and had no venue call fail; it leaves the position with the
\* tick and price range of the decision, last_rebalance_slot and
\* last_rebalance_timestamp at the current slot and time and rebalance_count
\* one higher, the decision Executed with executed_at the current time, and
\* one Rebalanced audit line for the position.
C13_Commit ==
    [][ \A did \in DOMAIN decisions :
          (lastCall'.op = "execute_rebalance" /\ CallDecision(lastCall') = did
             /\ lastCall'.result = "Ok") =>
              LET d == decisions[did]
                  p == positions[did[1]]
                  q == positions'[did[1]]
                  x == lastCall'.args[1]
              IN  /\ StatusAndApprovalMet(d, lastCall')
                  /\ x.slippage_tolerance_bps <= 2 * config.default_slippage_tolerance_bps
                  /\ Called(lastCall', "swap") => x.venue.jupiter_cpi_ok
                  /\ (Called(lastCall', "decrease_liquidity")
                        \/ Called(lastCall', "increase_liquidity")) => x.venue.raydium_cpi_ok
                  /\ q.current_tick_lower = d.new_tick_lower
                  /\ q.current_tick_upper = d.new_tick_upper
                  /\ q.current_price_lower = d.new_price_lower
                  /\ q.current_price_upper = d.new_price_upper
                  /\ q.last_rebalance_slot = slot'
                  /\ q.last_rebalance_timestamp = now'
                  /\ u32_value(q.rebalance_count) = u32_value(p.rebalance_count) + 1
                  /\ decisions'[did].execution_status = "Executed"
                  /\ decisions'[did].executed_at = Some(now')
                  /\ Len(lastCall'.audit) = 1
                  /\ lastCall'.audit[1].event_type = "Rebalanced"
                  /\ lastCall'.audit[1].position = Some(did[1])
      ]_vars

\* A rebalance has just been committed after a swap and a liquidity increase
\* at the venues, one clock advance after the position was created, and the
\* position has the range of the decision, which differs from its first range.
C13_Witness ==
    /\ lastCall.op = "execute_rebalance"
    /\ lastCall.result = "Ok"
    /\ lastCall.venue = <<"swap", "increase_liquidity">>
    /\ slot = 1
    /\ positions[lastCall.position[1]].last_rebalance_slot = 1
    /\ positions[lastCall.position[1]].current_price_lower
           = decisions[CallDecision(lastCall)].new_price_lower
    /\ positions[lastCall.position[1]].current_price_lower # GoodCreate.price[1]
    /\ decisions[CallDecision(lastCall)].executed_at = Some(now)

\* C14: with rebalance_count at the maximum of its type, execute_rebalance
\* never succeeds and writes neither the position nor the decision, and a
\* call that meets every other requirement is answered with the
\* CounterOverflow error.
C14_CounterOverflow ==
    [][ \A did \in DOMAIN decisions :
          (lastCall'.op = "execute_rebalance" /\ CallDecision(lastCall') = did
             /\ positions[did[1]].rebalance_count = U32Max) =>
              /\ lastCall'.result # "Ok"
              /\ positions' = positions
              /\ decisions' = decisions
              /\ (StatusAndApprovalMet(decisions[did], lastCall')
                    /\ lastCall'.args[1].slippage_tolerance_bps
                           <= 2 * config.default_slippage_tolerance_bps
                    /\ lastCall'.args[1].venue = LocalOnly)
                     => lastCall'.result = "CounterOverflow"
      ]_vars

\* a <= b for two u32
u32_leq(a, b) == a[1] < b[1] \/ (a[1] = b[1] /\ a[2] <= b[2])

\* C15: no step removes a position or lowers its last_rebalance_slot, its
\* last_rebalance_timestamp or its rebalance_count.
C15_CountersMonotonic ==
    [][ \A pid \in DOMAIN positions :
          /\ pid \in DOMAIN positions'
          /\ positions'[pid].last_rebalance_slot >= positions[pid].last_rebalance_slot
          /\ positions'[pid].last_rebalance_timestamp >= positions[pid].last_rebalance_timestamp
          /\ u32_leq(positions[pid].rebalance_count, positions'[pid].rebalance_count)
      ]_vars

\* A rebalance has just been committed one clock advance after the previous
\* one, and the counter carried into its high half.
C15_Witness ==
    /\ lastCall.op = "execute_rebalance"
    /\ lastCall.result = "Ok"
    /\ positions[lastCall.position[1]].rebalance_count = <<1, 0>>
    /\ positions[lastCall.position[1]].last_rebalance_slot = 1
    /\ positions[lastCall.position[1]].last_rebalance_timestamp = StartTime + TickSeconds

\* C16: no step removes a decision, and the execution_status of a decision
\* changes only from Pending to Executed, Rejected, Cancelled or Failed, and
\* only in a step that is a successful call on that decision; so a decision
\* in one of those four statuses keeps it, and a Pending decision stays
\* Pending while the clock advances and other calls are made.
C16_DecisionStateMachine ==
    [][ \A did \in DOMAIN decisions :
          /\ did \in DOMAIN decisions'
          /\ decisions'[did].execution_status # decisions[did].execution_status =>
                 /\ decisions[did].execution_status = "Pending"
                 /\ decisions'[did].execution_status
                        \in {"Executed", "Rejected", "Cancelled", "Failed"}
                 /\ lastCall'.op \in {"execute_rebalance", "approve_rebalance"}
                 /\ lastCall'.result = "Ok"
                 /\ CallDecision(lastCall') = did
      ]_vars

\* execute_rebalance, signed by the recorded approver, has just been tried on
\* a Failed decision after the clock advanced, and the decision is still
\* Failed.
C16_Witness ==
    /\ lastCall.op = "execute_rebalance"
    /\ lastCall.result = "InvalidExecutionStatus"
    /\ lastCall.signer # None
    /\ slot = 1
    /\ decisions[CallDecision(lastCall)].execution_status = "Failed"

\* C17: a decision that is not Pending is never written; approve_rebalance
\* writes nothing of a decision but human_approver and approval_timestamp;
\* execute_rebalance writes nothing but execution_status, executed_at,
\* execution_tx_signature and execution_slippage; no other step writes a
\* decision.  So requires_human_approval, the proposed range, the risk
\* assessment and the stored metrics never change after creation.
C17_FieldOwnership ==
    [][ \A did \in DOMAIN decisions :
          LET d == decisions[did]
              e == decisions'[did]
              on_this == lastCall'.op # "none" /\ lastCall'.index # None
                             /\ CallDecision(lastCall') = did
          IN  /\ d.execution_status # "Pending" => e = d
              /\ ~on_this => e = d
              /\ lastCall'.op = "approve_rebalance" =>
                     e = [d EXCEPT !.human_approver = e.human_approver,
                                   !.approval_timestamp = e.approval_timestamp]
              /\ lastCall'.op = "execute_rebalance" =>
                     e = [d EXCEPT !.execution_status = e.execution_status,
                                   !.executed_at = e.executed_at,
                                   !.execution_tx_signature = e.execution_tx_signature,
                                   !.execution_slippage = e.execution_slippage]
              /\ lastCall'.op \notin {"approve_rebalance", "execute_rebalance"} => e = d
              /\ e.requires_human_approval = d.requires_human_approval
              /\ e.risk_assessment = d.risk_assessment
              /\ <<e.new_tick_lower, e.new_tick_upper, e.new_price_lower, e.new_price_upper>>
                     = <<d.new_tick_lower, d.new_tick_upper, d.new_price_lower, d.new_price_upper>>
              /\ <<e.prediction_confidence, e.market_sentiment_score, e.volatility_metric>>
                     = <<d.prediction_confidence, d.market_sentiment_score, d.volatility_metric>>
      ]_vars

\* An approved decision has just been executed with a swap: it carries the
\* approver, the approval time of an earlier clock reading, the execution
\* slippage and the execution time.
C17_Witness ==
    /\ lastCall.op = "execute_rebalance"
    /\ lastCall.result = "Ok"
    /\ decisions[CallDecision(lastCall)].requires_human_approval
    /\ decisions[CallDecision(lastCall)].human_approver = lastCall.signer
    /\ decisions[CallDecision(lastCall)].approval_timestamp = Some(StartTime)
    /\ decisions[CallDecision(lastCall)].execution_slippage # None
    /\ decisions[CallDecision(lastCall)].executed_at = Some(StartTime + TickSeconds)

\* The errors that report a broken precondition: InvalidRange, CapExceeded,
\* PositionNotActive, RateLimited, ApprovalNotRequired, InvalidState,
\* ApprovalRequired (with the approver mismatch) and SlippageBoundInvalid.
PreconditionErrors ==
    { "InvalidPriceRange", "ExceedsMaxPositionSize", "ExceedsMaxTradeSize",
      "PositionNotActive", "RebalanceTooFrequent", "ApprovalNotRequired",
      "InvalidExecutionStatus", "HumanApprovalRequired", "InvalidApprover",
      "SlippageTooHigh" }

\* The call breaks a precondition of its operation, as the specification
\* states them, in the accounts ps and ds at time t.
BreaksPrecondition(call, ps, ds, t) ==
    IF call.op = "create_liquidity_position"
    THEN LET a == call.args[1] IN
         \/ a.tick[1] >= a.tick[2]
         \/ a.price[1] >= a.price[2]
         \/ a.max_position_size > config.max_position_size
         \/ a.max_single_trade > config.max_single_trade_size
    ELSE IF call.op = "create_rebalance_decision"
    THEN LET a == call.args[1]
             p == ps[call.position[1]]
         IN  \/ p.status # "Active"
             \/ t - p.last_rebalance_timestamp < p.min_rebalance_interval
             \/ a.tick[1] >= a.tick[2]
             \/ a.price[1] >= a.price[2]
    ELSE IF call.op = "approve_rebalance"
    THEN \/ ~ds[CallDecision(call)].requires_human_approval
         \/ ds[CallDecision(call)].execution_status # "Pending"
    ELSE IF call.op = "execute_rebalance"
    THEN \/ ~StatusAndApprovalMet(ds[CallDecision(call)], call)
         \/ call.args[1].slippage_tolerance_bps > 2 * config.default_slippage_tolerance_bps
    ELSE FALSE

\* C18: a create, propose, approve or execute call that breaks a precondition
\* fails with one of the precondition errors, and every call that fails with
\* one of them leaves all positions and all decisions as they were and writes
\* no audit line.
C18_PreconditionFailureWritesNothing ==
    [][ /\ BreaksPrecondition(lastCall', positions, decisions, now') =>
               lastCall'.result \in PreconditionErrors
        /\ (lastCall'.op # "none" /\ lastCall'.result \in PreconditionErrors) =>
               /\ positions' = positions
               /\ decisions' = decisions
               /\ lastCall'.audit = <<>>
      ]_vars

\* create_liquidity_position has just been refused for a max_single_trade
\* above the cap of the config, and no position exists.
C18_Witness ==
    /\ lastCall.op = "create_liquidity_position"
    /\ lastCall.result = "ExceedsMaxTradeSize"
    /\ lastCall.args[1].max_single_trade > config.max_single_trade_size
    /\ lastCall.audit = <<>>
    /\ positions = <<>>
    /\ decisions = <<>>

\* The last venue call the execute_rebalance call made was refused by the venue.
VenueFailed(call) ==
    /\ call.op = "execute_rebalance"
    /\ call.venue # <<>>
    /\ LET last == call.venue[Len(call.venue)] IN
       \/ last = "swap" /\ ~call.args[1].venue.jupiter_cpi_ok
       \/ last \in {"decrease_liquidity", "increase_liquidity"}
              /\ ~call.args[1].venue.raydium_cpi_ok
       \/ last = "increase_liquidity" /\ ~call.args[1].venue.raydium_increase_ok

\* C19: when a venue call of execute_rebalance fails (the swap, the liquidity
\* decrease or the liquidity increase, also after an earlier venue call of
\* the same execute_rebalance succeeded), the call returns the venue's error,
\* the decision stays Pending with its execution fields as they were, and no
\* position is written.
C19_VenueFailureCommitsNothing ==
    [][ VenueFailed(lastCall') =>
            /\ lastCall'.result = "VenueError"
            /\ decisions' = decisions
            /\ positions' = positions
            /\ decisions'[CallDecision(lastCall')].execution_status = "Pending"
      ]_vars

\* The venue has just refused the liquidity decrease after the swap of the
\* same call went through: the decision is Pending and carries no execution
\* slippage, and the position still has its first range.
C19_Witness ==
    /\ lastCall.op = "execute_rebalance"
    /\ lastCall.result = "VenueError"
    /\ lastCall.venue = <<"swap", "decrease_liquidity">>
    /\ decisions[CallDecision(lastCall)].execution_status = "Pending"
    /\ decisions[CallDecision(lastCall)].execution_slippage = None
    /\ decisions[CallDecision(lastCall)].executed_at = None
    /\ positions[lastCall.position[1]].current_price_lower = GoodCreate.price[1]

\* C20: every successful create_rebalance_decision writes a DecisionProposed
\* audit line for the position of the decision.
C20_ProposalAudited ==
    (lastCall.op = "create_rebalance_decision" /\ lastCall.result = "Ok") =>
        \E n \in DOMAIN lastCall.audit :
            /\ lastCall.audit[n].event_type = "DecisionProposed"
            /\ lastCall.audit[n].position = lastCall.position

\* The lines of the audit log about position pid, as indexes in log order
LinesOf(pid) == { n \in DOMAIN auditLog : auditLog[n].position = Some(pid) }

RangeWellFormed(a) == a.tick[1] < a.tick[2] /\ a.price[1] < a.price[2]
CapsWithinMaxima(a) ==
    /\ a.max_position_size <= config.max_position_size
    /\ a.max_single_trade <= config.max_single_trade_size
RaydiumNotFailing(a) == a.raydium = "none" \/ (a.raydium = "provided" /\ a.raydium_cpi_ok)

C24_CreatedPosition ==
    lastCall.op = "create_liquidity_position" /\ lastCall.result = "Ok" =>
        LET a == lastCall.args[1]
            pid == lastCall.position[1]
            p == positions[pid] IN
        /\ p.rebalance_count = U32(0)
        /\ p.last_rebalance_slot = 0
        /\ p.last_rebalance_timestamp = 0
        /\ p.status = "Active"
        /\ p.auto_rebalance_enabled
        /\ <<p.current_tick_lower, p.current_tick_upper>> = a.tick
        /\ <<p.current_price_lower, p.current_price_upper>> = a.price
        /\ p.max_position_size = a.max_position_size
        /\ p.max_single_trade = a.max_single_trade
        /\ p.min_rebalance_interval = MinRebalanceInterval
        /\ Cardinality({ n \in LinesOf(pid) : auditLog[n].event_type = "PositionCreated" }) = 1
        /\ Len(lastCall.audit) = 1
        /\ lastCall.audit[1].event_type = "PositionCreated"
        /\ lastCall.audit[1].position = Some(pid)

\* A position was created after the clock advanced, through the Raydium call
C24_Witness ==
    /\ lastCall.op = "create_liquidity_position"
    /\ lastCall.result = "Ok"
    /\ lastCall.args[1].raydium = "provided"
    /\ now > StartTime
    /\ lastCall.position[1] \in DOMAIN positions

RebalanceFields ==
    { "current_tick_lower", "current_tick_upper", "current_price_lower",
      "current_price_upper", "last_rebalance_slot", "last_rebalance_timestamp",
      "rebalance_count", "updated_at" }

C27_OneDecisionCommitted ==
    [][ lastCall'.op = "execute_rebalance" /\ lastCall'.result = "Ok" /\ lastCall = Idle =>
            LET d == CallDecision(lastCall') IN
            /\ decisions[d].execution_status = "Pending"
            /\ decisions'[d].execution_status = "Executed"
            /\ \A e \in DOMAIN decisions \ {d} : decisions'[e] = decisions[e]
            /\ positions'[decisions[d].position] # positions[decisions[d].position]
            /\ \A p \in DOMAIN positions \ {decisions[d].position} :
                   positions'[p] = positions[p] ]_vars

\* The second decision of one position has been executed while its first
\* decision and the decision of the other position are still Pending
C27_Witness ==
    /\ lastCall.op = "execute_rebalance"
    /\ lastCall.result = "Ok"
    /\ CallDecision(lastCall) = <<AccountPosition, 1>>
    /\ decisions[<<AccountPosition, 1>>].execution_status = "Executed"
    /\ decisions[<<AccountPosition, 0>>].execution_status = "Pending"
    /\ decisions[<<OtherPosition, 0>>].execution_status = "Pending"
    /\ positions[OtherPosition].rebalance_count = U32(0)

\* C28: in every reachable state the range of every Position is well formed,
\* current_tick_lower < current_tick_upper and current_price_lower <
\* current_price_upper: create establishes it and execute adopts the range of
\* a Decision, which was validated when the Decision was proposed.
C28_RangeWellFormed ==
    /\ \A pid \in DOMAIN positions :
           /\ positions[pid].current_tick_lower < positions[pid].current_tick_upper
           /\ positions[pid].current_price_lower < positions[pid].current_price_upper
    /\ \A d \in DOMAIN decisions :
           /\ decisions[d].new_tick_lower < decisions[d].new_tick_upper
           /\ decisions[d].new_price_lower < decisions[d].new_price_upper

\* A position has adopted, at a later time, a range other than the one it was
\* created with
C28_Witness ==
    \E pid \in DOMAIN positions :
        /\ positions[pid].rebalance_count = U32(1)
        /\ positions[pid].created_at < positions[pid].updated_at
        /\ <<positions[pid].current_price_lower, positions[pid].current_price_upper>>
               # GoodCreate.price

\* The threshold of the claim: the lower price moves by more than a tenth
\* (rounded down) of the position's lower price
SwapNeeded(position, decision) ==
    LET moved == decision.new_price_lower - position.current_price_lower
        distance == IF moved < 0 THEN 0 - moved ELSE moved
    IN  distance > position.current_price_lower \div 10

\* C29: swap_needed is true exactly when |new_price_lower -
\* current_price_lower| > current_price_lower / 10, with floor division and a
\* strict comparison, on the Position's range at the time of execute; the
\* swap amount is non-zero exactly when swap_needed is true; and execute
\* calls the venue's swap only when swap_needed is true.
C29_SwapThreshold ==
    [][ \A d \in DOMAIN decisions :
            LET position == positions[d[1]]
                decision == decisions[d] IN
            /\ calculate_swap_requirements(position, decision) = SwapNeeded(position, decision)
            /\ (calculate_swap_amount(position, decision) # 0) = SwapNeeded(position, decision)
            /\ lastCall'.op = "execute_rebalance" /\ CallDecision(lastCall') = d
                   /\ Called(lastCall', "swap") => SwapNeeded(position, decision) ]_vars

\* The venue's swap was called, and failed, for a decision one above the
\* threshold of a lower price that is not a multiple of ten
C29_Witness ==
    /\ lastCall.op = "execute_rebalance"
    /\ LET position == positions[lastCall.position[1]]
           decision == decisions[CallDecision(lastCall)] IN
       /\ position.current_price_lower % 10 # 0
       /\ decision.new_price_lower =
              position.current_price_lower + position.current_price_lower \div 10 + 1
       /\ Called(lastCall, "swap")
       /\ lastCall.result = "VenueError"

\* The liquidity calls an execute_rebalance call made at the venue, in order
LiquidityCalls(call) ==
    SelectSeq(call.venue, LAMBDA c : c \in {"decrease_liquidity", "increase_liquidity"})

\* C30 as stated: every execute that updates the venue range invokes
\* decrease_liquidity first and increase_liquidity second, never the increase
\* after a failed decrease, and commits only after both returned successfully.
C30_DecreaseThenIncrease ==
    [][ lastCall'.op = "execute_rebalance" /\ LiquidityCalls(lastCall') # <<>> =>
            LET venue == lastCall'.args[1].venue IN
            /\ LiquidityCalls(lastCall') =
                   IF venue.raydium_cpi_ok
                   THEN <<"decrease_liquidity", "increase_liquidity">>
                   ELSE <<"decrease_liquidity">>
            /\ lastCall'.result = "Ok" =>
                   venue.raydium_cpi_ok /\ venue.raydium_increase_ok ]_vars

\* C30, amended: an execute that updates the venue range of a Position
\* holding liquidity invokes decrease_liquidity first and increase_liquidity
\* second, and never the increase after a failed decrease; for a Position
\* holding no liquidity it invokes increase_liquidity alone.  The Position
\* and the Decision are committed only after every call it invoked returned
\* successfully.
C30_RangeUpdateOrder ==
    [][ lastCall'.op = "execute_rebalance" /\ LiquidityCalls(lastCall') # <<>> =>
            LET venue == lastCall'.args[1].venue
                position == positions[lastCall'.position[1]] IN
            /\ LiquidityCalls(lastCall') =
                   IF position.liquidity_amount = 0 THEN <<"increase_liquidity">>
                   ELSE IF venue.raydium_cpi_ok
                   THEN <<"decrease_liquidity", "increase_liquidity">>
                   ELSE <<"decrease_liquidity">>
            /\ (lastCall'.result = "Ok" \/ positions' # positions \/ decisions' # decisions) =>
                   venue.raydium_cpi_ok /\ venue.raydium_increase_ok ]_vars

\* The venue took the decrease and refused the increase: the call failed and
\* the decision is still Pending
C30_Witness ==
    /\ lastCall.op = "execute_rebalance"
    /\ lastCall.venue = <<"decrease_liquidity", "increase_liquidity">>
    /\ lastCall.args[1].venue.raydium_cpi_ok
    /\ lastCall.result = "VenueError"
    /\ decisions[CallDecision(lastCall)].execution_status = "Pending"

\* C31: when a swap is needed and the Decision carries a stored swap
\* transaction, an execute that meets the status, approval and tolerance
\* requirements never calls the venue's swap and is never refused for
\* slippage; without Raydium accounts it succeeds, and when it succeeds the
\* Decision is Executed with the execution signature of the call (unset if
\* the call gave none) and with execution_slippage unset.
C31_StoredSwapTransaction ==
    [][ \A did \in DOMAIN decisions :
          LET d == decisions[did]
              x == lastCall'.args[1] IN
          (lastCall'.op = "execute_rebalance" /\ CallDecision(lastCall') = did
             /\ SwapNeeded(positions[did[1]], d)
             /\ d.jupiter_swap_transaction # None
             /\ StatusAndApprovalMet(d, lastCall')
             /\ x.slippage_tolerance_bps <= 2 * DefaultSlippageToleranceBps) =>
              /\ ~Called(lastCall', "swap")
              /\ lastCall'.result # "SlippageTooHigh"
              /\ x.venue.raydium = "none" => lastCall'.result = "Ok"
              /\ lastCall'.result = "Ok" =>
                     /\ decisions'[did].execution_status = "Executed"
                     /\ decisions'[did].execution_tx_signature = x.swap_execution_signature
                     /\ decisions'[did].execution_slippage = None
                     /\ positions'[did[1]].current_price_lower = d.new_price_lower
      ]_vars

\* A rebalance was committed for a decision with a stored swap transaction,
\* the Jupiter accounts given and the venue set to refuse the swap
C31_Witness ==
    /\ lastCall.op = "execute_rebalance"
    /\ lastCall.result = "Ok"
    /\ lastCall.args[1].venue.jupiter_program = "provided"
    /\ ~lastCall.args[1].venue.jupiter_cpi_ok
    /\ decisions[CallDecision(lastCall)].jupiter_swap_transaction # None
    /\ decisions[CallDecision(lastCall)].execution_status = "Executed"
    /\ decisions[CallDecision(lastCall)].execution_slippage = None

\* The accounts a venue call needs are not all there: no Jupiter program, or
\* no swap accounts or route plan; no Raydium program, or no Raydium token
\* accounts or no owner account
JupiterUnavailable(v) ==
    \/ v.jupiter_program = "none"
    \/ v.jupiter_program = "provided" /\ (~v.swap_accounts \/ v.route_plan = None)
RaydiumUnavailable(x) ==
    \/ x.venue.raydium = "none"
    \/ x.venue.raydium = "provided" /\ (~x.venue.raydium_token_accounts \/ x.approver = None)

\* C32: when the venue accounts are unavailable, execute and create skip the
\* venue calls without an error and report success: an execute that meets the
\* status, approval and tolerance requirements makes no venue call, returns
\* Ok and commits the new range, the counters and the Executed status; a
\* create with valid arguments and no Raydium accounts returns Ok and creates
\* the Position.
C32_VenueSkippedSilently ==
    [][ /\ \A did \in DOMAIN decisions :
              LET d == decisions[did]
                  x == lastCall'.args[1] IN
              (lastCall'.op = "execute_rebalance" /\ CallDecision(lastCall') = did
                 /\ StatusAndApprovalMet(d, lastCall')
                 /\ x.slippage_tolerance_bps <= 2 * DefaultSlippageToleranceBps
                 /\ JupiterUnavailable(x.venue) /\ RaydiumUnavailable(x)) =>
                  /\ lastCall'.venue = <<>>
                  /\ lastCall'.result = "Ok"
                  /\ positions'[did[1]].current_tick_lower = d.new_tick_lower
                  /\ positions'[did[1]].current_price_lower = d.new_price_lower
                  /\ positions'[did[1]].last_rebalance_timestamp = now'
                  /\ u32_value(positions'[did[1]].rebalance_count)
                         = u32_value(positions[did[1]].rebalance_count) + 1
                  /\ decisions'[did].execution_status = "Executed"
        /\ (lastCall'.op = "create_liquidity_position" /\ lastCall = Idle
              /\ RangeWellFormed(lastCall'.args[1]) /\ CapsWithinMaxima(lastCall'.args[1])
              /\ lastCall'.args[1].raydium = "none") =>
               /\ lastCall'.result = "Ok"
               /\ lastCall'.position[1] \in DOMAIN positions'
      ]_vars

\* A rebalance that needed a swap was committed by a call that brought the
\* Raydium accounts but no owner account, and no venue was called
C32_Witness ==
    /\ lastCall.op = "execute_rebalance"
    /\ lastCall.result = "Ok"
    /\ lastCall.venue = <<>>
    /\ lastCall.args[1].venue.raydium = "provided"
    /\ lastCall.args[1].venue.raydium_token_accounts
    /\ lastCall.args[1].approver = None
    /\ decisions[CallDecision(lastCall)].execution_status = "Executed"
    /\ decisions[CallDecision(lastCall)].jupiter_swap_transaction = None
    /\ positions[lastCall.position[1]].current_price_lower = GoodPropose.price[1]

\* The Decisions of a Position that are Executed
ExecutedDecisionsOf(pid) ==
    {did \in DOMAIN decisions :
        did[1] = pid /\ decisions[did].execution_status = "Executed"}

\* C33: in every reachable state the rebalance_count of a Position is the
\* number of Decisions of that Position whose execution_status is Executed.
C33_CountIsExecutedDecisions ==
    \A pid \in DOMAIN positions :
        u32_value(positions[pid].rebalance_count) = Cardinality(ExecutedDecisionsOf(pid))

\* A Position with two Executed Decisions and a count of two
C33_Witness ==
    \E pid \in DOMAIN positions :
        /\ Cardinality(ExecutedDecisionsOf(pid)) = 2
        /\ u32_value(positions[pid].rebalance_count) = 2

\* C34: with a clock that never goes back, on every Decision an
\* approval_timestamp that is set is not before created_at, an executed_at
\* that is set is not before created_at, and an Executed Decision that
\* required approval has an approval_timestamp not after its executed_at.
C34_TimestampOrder ==
    \A did \in DOMAIN decisions :
        LET d == decisions[did] IN
        /\ d.approval_timestamp # None => d.created_at <= d.approval_timestamp[1]
        /\ d.executed_at # None => d.created_at <= d.executed_at[1]
        /\ (d.execution_status = "Executed" /\ d.requires_human_approval) =>
               /\ d.approval_timestamp # None
               /\ d.executed_at # None
               /\ d.approval_timestamp[1] <= d.executed_at[1]

\* A Decision that required approval was approved when it was created and
\* executed after the clock had advanced
C34_Witness ==
    \E did \in DOMAIN decisions :
        LET d == decisions[did] IN
        /\ d.execution_status = "Executed"
        /\ d.requires_human_approval
        /\ d.approval_timestamp = Some(d.created_at)
        /\ d.executed_at # None
        /\ d.executed_at[1] > d.created_at

\* C35: no step writes total_value_locked after create set it to 0, so every
\* Decision whose risk tier is Low or Medium has requires_human_approval =
\* FALSE, and an execute of such a Decision is never refused for want of an
\* approval, whoever sends it and with or without an approver account: a
\* Pending one with a tolerance within the bound and no venue to call commits.
C35_LowAndMediumNeedNoApproval ==
    [][ /\ \A pid \in DOMAIN positions' : positions'[pid].total_value_locked = 0
        /\ \A did \in DOMAIN decisions' :
               decisions'[did].risk_assessment \in {"Low", "Medium"} =>
                   ~decisions'[did].requires_human_approval
        /\ \A did \in DOMAIN decisions :
               LET d == decisions[did]
                   x == lastCall'.args[1] IN
               (lastCall'.op = "execute_rebalance" /\ CallDecision(lastCall') = did
                  /\ d.risk_assessment \in {"Low", "Medium"}) =>
                   /\ lastCall'.result \notin {"HumanApprovalRequired", "InvalidApprover"}
                   /\ (d.execution_status = "Pending"
                         /\ x.slippage_tolerance_bps <= 2 * DefaultSlippageToleranceBps
                         /\ JupiterUnavailable(x.venue) /\ RaydiumUnavailable(x)) =>
                          /\ lastCall'.result = "Ok"
                          /\ decisions'[did].execution_status = "Executed"
      ]_vars

\* A Medium Decision on a Position that was rebalanced before, never approved,
\* was executed by a call without an approver account
C35_Witness ==
    /\ lastCall.op = "execute_rebalance"
    /\ lastCall.result = "Ok"
    /\ lastCall.args[1].approver = None
    /\ LET d == decisions[CallDecision(lastCall)] IN
       /\ d.risk_assessment = "Medium"
       /\ d.human_approver = None
       /\ d.execution_status = "Executed"
    /\ u32_value(positions[lastCall.position[1]].rebalance_count) = 2
    /\ positions[lastCall.position[1]].total_value_locked = 0

\* collect_fees is refused with PositionNotActive on a Position that is not
\* Active, with NoFeesToCollect on an Active one whose two fee counters are 0,
\* and so succeeds only on an Active Position with a fee counter above 0
CollectFeesRequirements ==
    \A pid \in DOMAIN positions :
        (lastCall'.op = "collect_fees" /\ lastCall'.position = Some(pid)) =>
            LET p == positions[pid] IN
            /\ p.status # "Active" => lastCall'.result = "PositionNotActive"
            /\ (p.status = "Active" /\ p.total_fees_earned_a = 0 /\ p.total_fees_earned_b = 0)
                   => lastCall'.result = "NoFeesToCollect"
            /\ lastCall'.result = "Ok" =>
                   /\ p.status = "Active"
                   /\ p.total_fees_earned_a > 0 \/ p.total_fees_earned_b > 0

\* C36: collect_fees succeeds only for an Active Position with a fee counter
\* above 0 and is refused with PositionNotActive or NoFeesToCollect otherwise;
\* no step raises a fee counter above the 0 create gave it, so the two
\* counters of every Position stay 0 and every collect_fees is refused with
\* NoFeesToCollect and writes nothing.
C36_NoFeesEverCollected ==
    [][ /\ CollectFeesRequirements
        /\ \A pid \in DOMAIN positions' :
               /\ positions'[pid].total_fees_earned_a = 0
               /\ positions'[pid].total_fees_earned_b = 0
        /\ lastCall'.op = "collect_fees" =>
               /\ lastCall'.result = "NoFeesToCollect"
               /\ positions' = positions
      ]_vars

\* collect_fees was refused on a Position that was rebalanced twice
C36_Witness ==
    /\ lastCall.op = "collect_fees"
    /\ lastCall.result = "NoFeesToCollect"
    /\ lastCall.position # None
    /\ u32_value(positions[lastCall.position[1]].rebalance_count) = 2
    /\ positions[lastCall.position[1]].status = "Active"

\* The transaction the detector was given, once it has answered
Analyzed == transaction # None /\ warnings # None
AnalyzedInstructions ==
    IF transaction[1].encoding = "Json" /\ transaction[1].message = "Parsed"
    THEN transaction[1].instructions ELSE <<>>

\* A parsed instruction of the token program or the token-2022 program
TokenInstruction(i, type) ==
    /\ i.kind = "Parsed"
    /\ i.program \in {"spl-token", "spl-token-2022"}
    /\ i.type = JsonString(type)

\* A setAuthority of the given authority type that names no new authority
AuthorityRemoved(i, authority_type) ==
    /\ TokenInstruction(i, "setAuthority")
    /\ i.info.authorityType = JsonString(authority_type)
    /\ i.info.newAuthority.t # "string"

\* How many of the analyzed instructions are such, and how many of the
\* warnings returned carry the pattern
InstructionsThat(P(_)) ==
    Cardinality({ n \in DOMAIN AnalyzedInstructions : P(AnalyzedInstructions[n]) })
WarningsOf(pattern_id) ==
    { n \in DOMAIN warnings[1] : warnings[1][n].pattern_id = pattern_id }

\* C39: a parsed token setAuthority with no new authority yields exactly one
\* warning, P-101 Mint Kill of severity Critical for mintTokens and P-102
\* Freeze Kill of severity Warning for freezeAccount, and none for another
\* authority type; every parsed token closeAccount yields exactly one P-104
\* warning of severity Warning.  Besides the P-103 warnings, the detector
\* returns nothing else.
C39_AuthorityRemovalWarnings ==
    Analyzed =>
        LET MintKills(i) == AuthorityRemoved(i, "mintTokens")
            FreezeKills(i) == AuthorityRemoved(i, "freezeAccount")
            Closes(i) == TokenInstruction(i, "closeAccount")
        IN  /\ Cardinality(WarningsOf("P101MintKill")) = InstructionsThat(MintKills)
            /\ Cardinality(WarningsOf("P102FreezeKill")) = InstructionsThat(FreezeKills)
            /\ Cardinality(WarningsOf("P104DangerousClose")) = InstructionsThat(Closes)
            /\ \A n \in WarningsOf("P101MintKill") : warnings[1][n].severity = "Critical"
            /\ \A n \in WarningsOf("P102FreezeKill") : warnings[1][n].severity = "Warning"
            /\ \A n \in WarningsOf("P104DangerousClose") : warnings[1][n].severity = "Warning"
            /\ Len(warnings[1]) - Cardinality(WarningsOf("P103SignerMismatch"))
                   = InstructionsThat(MintKills) + InstructionsThat(FreezeKills)
                         + InstructionsThat(Closes)

\* A closeAccount followed by a setAuthority that removes the freeze
\* authority: two warnings, P-104 and then P-102
C39_Witness ==
    /\ Analyzed
    /\ Len(transaction[1].instructions) = 2
    /\ TokenInstruction(transaction[1].instructions[1], "closeAccount")
    /\ AuthorityRemoved(transaction[1].instructions[2], "freezeAccount")
    /\ Len(warnings[1]) = 2
    /\ warnings[1][1].pattern_id = "P104DangerousClose"
    /\ warnings[1][2].pattern_id = "P102FreezeKill"

\* The keys of the accounts that sign the analyzed transaction
TransactionSigners ==
    { k \in 101..104 :
        \E n \in DOMAIN transaction[1].account_keys :
            /\ transaction[1].account_keys[n].signer
            /\ parse_pubkey(transaction[1].account_keys[n].pubkey) = Some(k) }

\* A setAuthority of one of the four authority types whose new authority is a
\* valid public key that does not sign the transaction
ForeignAuthority(i) ==
    /\ TokenInstruction(i, "setAuthority")
    /\ \E t \in {"mintTokens", "freezeAccount", "accountOwner", "closeAccount"} :
           i.info.authorityType = JsonString(t)
    /\ i.info.newAuthority.t = "string"
    /\ parse_pubkey(i.info.newAuthority.v) # None
    /\ parse_pubkey(i.info.newAuthority.v)[1] \notin TransactionSigners

\* C40: a parsed setAuthority of type mintTokens, freezeAccount, accountOwner
\* or closeAccount with a new authority yields a P-103 Signer Mismatch warning
\* of severity Critical exactly when the new authority is a valid public key
\* that is not among the signers of the transaction: the P-103 warnings are
\* as many as such instructions, so a new authority that signs, or a text
\* that is no key, yields none.
C40_SignerMismatch ==
    Analyzed =>
        /\ Cardinality(WarningsOf("P103SignerMismatch")) = InstructionsThat(ForeignAuthority)
        /\ \A n \in WarningsOf("P103SignerMismatch") : warnings[1][n].severity = "Critical"

\* The new owner is an account of the transaction that does not sign it
C40_Witness ==
    /\ Analyzed
    /\ Len(transaction[1].instructions) = 2
    /\ transaction[1].instructions[2].info.authorityType = JsonString("accountOwner")
    /\ transaction[1].instructions[2].info.newAuthority = JsonString("OtherKey")
    /\ Cardinality(WarningsOf("P103SignerMismatch")) = 1
    /\ warnings[1][Len(warnings[1])].severity = "Critical"

\* The step is a poll of the watch loop
PollStep == lastPoll.pc = "polling" /\ lastPoll'.pc = "sleeping"

\* C37: over any sequence of polls, a signature whose transaction was fetched
\* is analyzed at most once: a poll analyzes no signature that an earlier
\* poll analyzed, and none twice.
C37_AnalyzedAtMostOnce ==
    [][ PollStep =>
            /\ \A n \in DOMAIN lastPoll'.analyzed : lastPoll'.analyzed[n] \notin analyzed
            /\ Cardinality(Range(lastPoll'.analyzed)) = Len(lastPoll'.analyzed)
      ]_vars

\* C38: a signature whose fetch failed is not marked processed and is fetched
\* again by the next poll that returns it among its first 10 signatures; a
\* poll always ends in the sleep, whether it returned Ok or Err and whatever
\* fetch failed, and after the sleep the loop polls again.
C38_RetryAndContinue ==
    /\ [][ /\ PollStep =>
                /\ \A text \in lastPoll'.failed : text \notin processed_signatures'
                /\ \A text \in lastPoll.unfetched :
                       /\ text \notin processed_signatures
                       /\ (lastPoll'.result = "Ok"
                             /\ text \in Range(take(lastPoll'.returned, 10)))
                              => text \in Range(lastPoll'.fetched)
           /\ lastPoll.pc = "polling" => lastPoll'.pc = "sleeping"
           /\ lastPoll.pc = "sleeping" => lastPoll'.pc = "polling"
         ]_vars
    /\ (lastPoll.pc = "sleeping") ~> (lastPoll.pc = "polling")
    /\ []<>(lastPoll.pc = "sleeping")

\* A signature whose fetch had failed was fetched again and analyzed, in a
\* poll in which the fetch of another signature failed
C38_Witness ==
    /\ lastPoll.pc = "sleeping"
    /\ lastPoll.result = "Ok"
    /\ "sig02" \in lastPoll.retried
    /\ "sig02" \in Range(lastPoll.analyzed)
    /\ "sig01" \in lastPoll.failed
    /\ lastPoll.warning_count = 2

====
